---- MODULE Spec2Model ----
(***************************************************************************)
(* Model of the Twitter client base class,                                 *)
(* src/core/src/clients/twitter/base.ts: the RequestQueue (serialized      *)
(* request dispatch with backoff and pacing) and the two-tier tweet cache  *)
(* of ClientBase (in-memory Map plus one JSON file per tweet), the async   *)
(* initialization of the ClientBase constructor (credentials, polling      *)
(* loop, user id, populateTimeline, onReady), the remote fetch and search  *)
(* calls, and populateTimeline run by the client instances that            *)
(* startTwitter (src/unnamed/part_002) constructs on one runtime.          *)
(*                                                                         *)
(* JavaScript runs the code on one thread; an async function runs without  *)
(* interruption up to its next await.  Every action below is one such      *)
(* uninterrupted stretch of code.                                          *)
(***************************************************************************)
EXTENDS Integers, Sequences, FiniteSets, TLC

VARIABLES
    \* ---- RequestQueue (base.ts 60-108)
    queue,        \* RequestQueue.queue: the pending wrappers, by operation number
    processing,   \* RequestQueue.processing
    wpc,          \* position of the processQueue loop
    cur,          \* the local `request` of processQueue (0: none)
    reqResult,    \* how `await request()` ended for the loop
    sleep,        \* the timers the loop still has to wait for, in order (ms)
    running,      \* operations whose thunk has been called and has not settled
    nAdded,       \* number of add() calls made so far
    behaviour,    \* what each submitted thunk does when called
    attempts,     \* how many times each thunk has been called
    promise,      \* the promise add() returned for each operation
    settleCalls,  \* calls of resolve()/reject() made for each operation
    log,          \* the settled thunk calls, in order: <<operation, "ok"|"err">>
    \* ---- tweet cache of ClientBase (base.ts 121-174)
    tweetCache,   \* ClientBase.tweetCache: the in-memory tier
    files,        \* the file system: path -> file content
    dirs,         \* the directories that exist
    calls,        \* the cache calls in progress, one per caller
    lastCached,   \* per identifier, the argument of the last completed cacheTweet
    restarts,     \* number of process restarts so far
    \* ---- bootstrap of ClientBase (base.ts 228-317)
    boot,         \* the async initialization of one client: position and effects
    \* ---- remote fetch and search calls (base.ts 163-174, 320-407)
    opKind,       \* the remote call made by the thunk of each queued operation
    direct,       \* remote calls in flight that were made outside the queue
    search,       \* the fetchSearchTweets() call behind each queued operation
    home,         \* what the remote home timeline holds and fetchHomeTimeline gave
    \* ---- populateTimeline (base.ts 409-591) of the clients of one agent
    store,        \* the agent's messageManager: the memories created, in order
    snapshot,     \* content of timeline_cache.json ("none": no such file)
    pass,         \* the populateTimeline() call of each client instance
    createLog,    \* the createMemory() calls made by populateTimeline, in order
    connections   \* the rooms given to ensureConnection() so far

queueVars == <<queue, processing, wpc, cur, reqResult, sleep, running, nAdded,
               behaviour, attempts, promise, settleCalls, log>>
cacheVars == <<tweetCache, files, dirs, calls, lastCached, restarts>>
bootVars == <<boot>>
fetchVars == <<opKind, direct, search, home>>
reconVars == <<store, snapshot, pass, createLog, connections>>
clientVars == <<bootVars, fetchVars, reconVars>>
vars == <<queueVars, cacheVars, clientVars>>

----------------------------------------------------------------------------
(* Bounds of the model *)

MaxOps == 3        \* add() calls per behaviour
MaxAttempts == 3   \* calls of one thunk per behaviour
MaxRestarts == 1   \* process restarts per behaviour

Ops == 1..MaxOps

\* What a submitted thunk does: always resolve, throw on its first call only,
\* or throw on every call.
Behaviours == {"ok", "failOnce", "failAlways"}

\* Samples of Math.random(), in 1/2000ths (0 <= r < 1).
RandomSamples == {0, 1999}

----------------------------------------------------------------------------
(* The client outside a bootstrap: values the initial states share *)

\* The async initialization of the constructor before its first statement.
\*   pc            position of the async function
\*   inline        the TWITTER_COOKIES setting: absent, a JSON array, not JSON
\*   saved         what loadCookiesFromDatabase() has to return
\*   installed     the cookies last given to the scraper (or made by login)
\*   steps         the credential operations done before the polling loop
\*   dbSaved       the arguments of the saveCookiesToDatabase() calls
\*   cookieFile    content of tweetcache/<user>_cookies.json
\*   loggedInWaits the local counter of the polling loop
\*   failedPolls   isLoggedIn() answers `false` since the last login
\*   forced        logins issued by the polling loop
\*   active        isLoggedIn() has answered `true`
\*   emitted       the events emitted on the client, in order
\*   logged        the logger.error() messages, in order
\*   thunk         position of the user-id thunk; timer: the delay it waits
\*   idCalls       calls of getUserIdByScreenName()
\*   answer        what the thunk returned
\*   twitterUserId this.twitterUserId
\*   populateRuns  calls of populateTimeline(); populated: one has returned
\*   onReadyCalls  calls of onReady()
\*   failure       why the function ended early
\*   escaped       an exception left the async function
BootIdle ==
    [pc |-> "init", inline |-> "absent", saved |-> "none",
     installed |-> "none", steps |-> <<>>, dbSaved |-> <<>>,
     cookieFile |-> "none", loggedInWaits |-> 0, failedPolls |-> 0,
     forced |-> 0, active |-> FALSE, emitted |-> <<>>, logged |-> <<>>,
     thunk |-> "none", timer |-> 0, idCalls |-> 0, answer |-> "none",
     twitterUserId |-> "unset", populateRuns |-> 0, populated |-> FALSE,
     onReadyCalls |-> 0, failure |-> "none", escaped |-> FALSE,
     pollsBefore |-> <<>>, persistedBy |-> "none", prev |-> "none"]

\* No queued operation has been given a thunk yet.
NoKinds == [o \in Ops |-> "none"]

\* An operation that no fetchSearchTweets() call stands behind.
\*   timer   the setTimeout of timeoutPromise: none, armed, fired
\*   remote  how twitterClient.fetchSearchTweets() settled, once it did
\*   ret     what fetchSearchTweets() gave its caller, once it returned
NoSearch == [timer |-> "none", remote |-> "unsettled",
             ret |-> [kind |-> "none", val |-> 0]]
NoSearches == [o \in Ops |-> NoSearch]

\* An empty remote home timeline and no fetchHomeTimeline() result.
\*   raw  the items twitterClient.fetchHomeTimeline() answers with
\*   out  what fetchHomeTimeline() last returned or threw
NoHome == [raw |-> <<>>, out |-> [kind |-> "none", tweets |-> <<>>]]

\* The client instances of one agent that startTwitter() constructs on the
\* same runtime.
Instances == {"TwitterSearchClient", "TwitterInteractionClient",
              "TwitterGenerationClient"}

\* A client whose populateTimeline() has not been called.
\*   pc       position in populateTimeline
\*   tweets   cachedResults (snapshot branch) or allTweets (fresh branch)
\*   toSave   tweetsToSave; k: index of the loop in it
\*   fetched  the result of fetchSearchTweets, once it arrived
\*   after    the instances whose call had ended when this one began
\*   endStore the store when this call ended
PassIdle ==
    [pc |-> "idle", tweets |-> <<>>, toSave |-> <<>>, k |-> 0,
     fetched |-> "no", after |-> {}, endStore |-> <<>>,
     startStore |-> <<>>, startSnapshot |-> <<>>,
     ensureCalls |-> {}, ensured |-> {}]

NoPasses == [i \in Instances |-> PassIdle]

----------------------------------------------------------------------------
(* RequestQueue *)

ResultOf(o) == o          \* the value thunk o resolves with
ErrorOf(o) == 0 - o       \* the error thunk o throws

\* The k-th call of a thunk with behaviour b.
ThunkOutcome(b, o, k) ==
    IF b = "ok" \/ (b = "failOnce" /\ k > 1)
    THEN [kind |-> "ok", val |-> ResultOf(o)]
    ELSE [kind |-> "err", val |-> ErrorOf(o)]

Pending == [state |-> "pending", val |-> 0]

\* A promise settles once: resolve/reject on a settled promise do nothing.
Settle(p, st, v) == IF p.state = "pending" THEN [state |-> st, val |-> v] ELSE p

PushFront(q, o) == <<o>> \o q
\* add(): this.queue.push(wrapper)
Push(q, o) == Append(q, o)

WrapperResolvesAlways(p, out) == Settle(p, "resolved", out.val)
\* the wrapper add() builds: try { resolve(await request()) } catch { reject(error) }
WrapperSettle(p, out) ==
    IF out.kind = "ok" THEN Settle(p, "resolved", out.val)
                       ELSE Settle(p, "rejected", out.val)

\* How the wrapper itself ends: its catch clause handles every error of the
\* thunk, so the promise the wrapper returns is always fulfilled.
WrapperCompletion(out) == "returned"

ProcessQueueReturnsAlways(p, q) == TRUE
\* processQueue(): if (this.processing || this.queue.length === 0) return
ProcessQueueReturnsEarly(p, q) == p \/ Len(q) = 0

LoopContinuesOffByOne(q) == Len(q) > 1
\* processQueue(): while (this.queue.length > 0)
LoopContinues(q) == Len(q) > 0

RequestNotAwaited == FALSE
\* processQueue(): `await request()` suspends the loop until the wrapper ends
RequestAwaited == TRUE

\* catch branch of processQueue(): this.queue.unshift(request)
Unshift(q, o) == <<o>> \o q

RECURSIVE Pow2(_)
Pow2(n) == IF n = 0 THEN 1 ELSE 2 * Pow2(n - 1)

\* exponentialBackoff(retryCount): Math.pow(2, retryCount) * 1000
exponentialBackoff(retryCount) == Pow2(retryCount) * 1000

\* randomDelay(): Math.floor(Math.random() * 2000) + 1500, r in 1/2000ths
randomDelayWide(r) == ((r * 4000) \div 2000) + 1500
randomDelay(r) == ((r * 2000) \div 2000) + 1500

\* One turn of the while loop up to its first await: shift the head of q and
\* call it.  The wrapper calls the thunk at once.
StartNext(q) ==
    LET o == Head(q) IN
    /\ queue' = Tail(q)
    /\ cur' = o
    /\ attempts' = [attempts EXCEPT ![o] = @ + 1]
    /\ running' = running \cup {o}
    /\ IF RequestAwaited
       THEN wpc' = "awaiting" /\ reqResult' = "none"
       ELSE wpc' = "resumed" /\ reqResult' = "returned"
    /\ sleep' = <<>>

CanStart(q) == attempts[Head(q)] < MaxAttempts

\* add(request): push the wrapper, then call processQueue(), which returns at
\* once when a loop is active and otherwise starts one.
Enqueue(b) ==
    /\ nAdded < MaxOps
    /\ LET o == nAdded + 1
           q == Push(queue, o)
       IN /\ nAdded' = o
          /\ behaviour' = [behaviour EXCEPT ![o] = b]
          /\ IF ProcessQueueReturnsEarly(processing, q)
             THEN /\ queue' = q
                  /\ UNCHANGED <<processing, wpc, cur, reqResult, sleep, running,
                                 attempts>>
             ELSE /\ CanStart(q)
                  /\ processing' = TRUE
                  /\ StartNext(q)
    /\ UNCHANGED <<promise, settleCalls, log>>

\* add() called by a caller that is not modelled further.
Add(b) ==
    /\ Enqueue(b)
    /\ UNCHANGED <<cacheVars, clientVars>>

\* The thunk of a running operation settles; the wrapper resolves or rejects
\* the promise of add() and ends, which resumes the loop awaiting it.
SettleThunk(o, out) ==
    /\ o \in running
    /\ running' = running \ {o}
    /\ promise' = [promise EXCEPT ![o] = WrapperSettle(@, out)]
    /\ settleCalls' = [settleCalls EXCEPT ![o] = @ + 1]
    /\ log' = Append(log, <<o, out.kind>>)
    /\ IF wpc = "awaiting" /\ cur = o
       THEN wpc' = "resumed" /\ reqResult' = WrapperCompletion(out)
       ELSE UNCHANGED <<wpc, reqResult>>
    /\ UNCHANGED <<queue, processing, cur, sleep, nAdded, behaviour, attempts>>

\* The thunk of an operation whose remote call is all it awaits.
ThunkSettle(o) ==
    /\ SettleThunk(o, ThunkOutcome(behaviour[o], o, attempts[o]))
    /\ UNCHANGED <<cacheVars, clientVars>>

\* processQueue() after `await request()`: the catch branch puts the request
\* back and backs off; either way the pacing delay follows.
WorkerResume(r) ==
    /\ wpc = "resumed"
    /\ IF reqResult = "threw"
       THEN /\ queue' = Unshift(queue, cur)
            /\ sleep' = <<exponentialBackoff(Len(queue')), randomDelay(r)>>
       ELSE /\ queue' = queue
            /\ sleep' = <<randomDelay(r)>>
    /\ wpc' = "sleeping"
    /\ UNCHANGED <<processing, cur, reqResult, running, nAdded, behaviour,
                   attempts, promise, settleCalls, log, cacheVars, clientVars>>

\* A timer of the loop fires.  After the pacing delay the while condition is
\* tested: the loop takes the next request or clears `processing` and ends.
TimerFires ==
    /\ wpc = "sleeping"
    /\ IF Len(sleep) > 1
       THEN /\ sleep' = Tail(sleep)
            /\ UNCHANGED <<queue, processing, wpc, cur, reqResult, running,
                           attempts>>
       ELSE IF LoopContinues(queue)
            THEN /\ CanStart(queue)
                 /\ StartNext(queue)
                 /\ UNCHANGED processing
            ELSE /\ processing' = FALSE
                 /\ wpc' = "idle"
                 /\ cur' = 0
                 /\ reqResult' = "none"
                 /\ sleep' = <<>>
                 /\ UNCHANGED <<queue, running, attempts>>
    /\ UNCHANGED <<nAdded, behaviour, promise, settleCalls, log, cacheVars, clientVars>>

\* The state after `new RequestQueue()`; the cache is not used.
QueueInit ==
    /\ queue = <<>>
    /\ processing = FALSE
    /\ wpc = "idle"
    /\ cur = 0
    /\ reqResult = "none"
    /\ sleep = <<>>
    /\ running = {}
    /\ nAdded = 0
    /\ behaviour = [o \in Ops |-> "ok"]
    /\ attempts = [o \in Ops |-> 0]
    /\ promise = [o \in Ops |-> Pending]
    /\ settleCalls = [o \in Ops |-> 0]
    /\ log = <<>>
    /\ tweetCache = <<>>
    /\ files = <<>>
    /\ dirs = {}
    /\ calls = <<>>
    /\ lastCached = <<>>
    /\ restarts = 0
    /\ boot = BootIdle
    /\ opKind = NoKinds
    /\ direct = {}
    /\ search = NoSearches
    /\ home = NoHome
    /\ store = <<>>
    /\ snapshot = [exists |-> FALSE, data |-> <<>>]
    /\ pass = NoPasses
    /\ createLog = <<>>
    /\ connections = {}

QueueNext ==
    \/ \E b \in Behaviours : Add(b)
    \/ \E o \in Ops : ThunkSettle(o)
    \/ \E r \in RandomSamples : WorkerResume(r)
    \/ TimerFires

QueueSpec == QueueInit /\ [][QueueNext]_vars

\* The event loop runs every continuation that is ready, every timer fires,
\* and every thunk settles.  Nothing obliges a caller to call add().
QueueFairness ==
    /\ \A o \in Ops : WF_vars(ThunkSettle(o))
    /\ WF_vars(\E r \in RandomSamples : WorkerResume(r))
    /\ WF_vars(TimerFires)

QueueFairSpec == QueueSpec /\ QueueFairness

----------------------------------------------------------------------------
(* Tweet cache of ClientBase *)

\* Two callers use the cache concurrently.
Callers == {"a", "b"}
TweetIds == {"t1", "t2"}

\* The conversation a tweet belongs to.
ConvOf(id) == IF id = "t1" THEN "c1" ELSE "c2"

\* A Tweet, as far as the cache is concerned: its identifier, its
\* conversation and its payload.  The full payload is the scraper's Tweet,
\* which carries timeParsed, a Date object; the partial one is the flattened
\* object fetchHomeTimeline builds, which has no such field.
Tweets ==
    {t \in [id : TweetIds, conversationId : {"c1", "c2"},
            text : {"full", "partial"}, timeParsed : {"absent", "Date"}] :
        /\ t.conversationId = ConvOf(t.id)
        /\ (t.timeParsed = "Date") <=> (t.text = "full")}

\* undefined / null
Undefined == [id |-> "undefined", conversationId |-> "", text |-> "",
              timeParsed |-> "absent"]

\* JSON.stringify(tweet, null, 2): a Date is written as its ISO string.
JSONstringify(t) ==
    [t EXCEPT !.timeParsed = IF @ = "Date" THEN "string" ELSE @]

\* JSON.parse(tweetData): strings stay strings.
JSONparse(data) == data

\* __dirname of base.ts
Dirname == <<"core", "src", "clients", "twitter">>

\* `${tweet.id}.json`
JsonName(id) == IF id = "t1" THEN "t1.json" ELSE IF id = "t2" THEN "t2.json"
                ELSE "undefined.json"

\* path.join(...): concatenate the segments and resolve "..".
RECURSIVE Normalize(_, _)
Normalize(done, rest) ==
    IF rest = <<>> THEN done
    ELSE IF Head(rest) = ".." /\ done # <<>>
         THEN Normalize(SubSeq(done, 1, Len(done) - 1), Tail(rest))
         ELSE Normalize(Append(done, Head(rest)), Tail(rest))

PathJoin(segments) == Normalize(<<>>, segments)

\* path.dirname(p)
PathDirname(p) == SubSeq(p, 1, Len(p) - 1)

CachePathUnderDirname(t) ==
    PathJoin(Dirname \o <<"tweetcache">> \o <<t.conversationId, JsonName(t.id)>>)
\* cacheTweet: path.join(__dirname, "../../../tweetcache", tweet.conversationId,
\* `${tweet.id}.json`)
CachePath(t) ==
    PathJoin(Dirname \o <<"..", "..", "..", "tweetcache">>
                     \o <<t.conversationId, JsonName(t.id)>>)

\* getCachedTweet: path.join(__dirname, "tweetcache", "*", `${tweetId}.json`)
CachePattern(tweetId) ==
    PathJoin(Dirname \o <<"tweetcache">> \o <<"*", JsonName(tweetId)>>)

\* glob(pattern): the files whose path matches, "*" standing for one segment.
Glob(pattern) ==
    {p \in DOMAIN files :
        /\ Len(p) = Len(pattern)
        /\ \A i \in 1..Len(p) : pattern[i] = "*" \/ pattern[i] = p[i]}

\* fs.promises.mkdir(dir, { recursive: true }): dir and its ancestors exist.
Mkdir(dir) == dirs \cup {SubSeq(dir, 1, n) : n \in 1..Len(dir)}

NoRet == [kind |-> "none", val |-> Undefined, err |-> ""]
Value(v) == [kind |-> "value", val |-> v, err |-> ""]
Throw(e) == [kind |-> "throw", val |-> Undefined, err |-> e]

\* A caller between two calls.
\*   op, arg  the method called and its tweetId
\*   tweet    the tweet cacheTweet is writing
\*   io       how the awaited fs call ended
\*   fetched  remote getTweet calls this call has submitted to the queue
\*   scanned  this call has issued the glob over the tweetcache directories
IdleCall == [op |-> "none", pc |-> "idle", arg |-> "", tweet |-> Undefined,
             io |-> "none", fetched |-> 0, scanned |-> FALSE, ret |-> NoRet]

CacheNeverHit(tweetId) == FALSE
\* getCachedTweet: this.tweetCache.has(tweetId)
CacheHas(tweetId) == tweetId \in DOMAIN tweetCache

MemorySetSkipped(m, t) == m
\* this.tweetCache.set(tweet.id, tweet)
MemorySet(m, t) == (t.id :> t) @@ m

PromoteSkipped(m, t) == m
\* getCachedTweet after the file is read: this.tweetCache.set(tweet.id, tweet)
Promote(m, t) == MemorySet(m, t)

GetTweetIgnoresCache(cachedTweet) == FALSE
\* getTweet: if (cachedTweet) { return cachedTweet; }
GetTweetReturnsCached(cachedTweet) == cachedTweet # Undefined

CacheTweetSwallowsIOError(e) == Value(Undefined)
\* cacheTweet awaits mkdir and writeFile outside any try: their error is the
\* error of cacheTweet; getTweet awaits cacheTweet the same way.
CacheTweetOnIOError(e) == Throw(e)

MemorySetDespiteIOError(m, t) == MemorySet(m, t)
\* cacheTweet: a rejected mkdir or writeFile leaves the function before
\* this.tweetCache.set(tweet.id, tweet) is reached.
MemoryOnIOError(m, t) == m

\* The synchronous start of cacheTweet(tweet), for a caller running operation
\* op: an undefined tweet is skipped (result is what op then returns),
\* otherwise mkdir is issued.
EnterCacheTweet(c, op, t, result, n) ==
    IF t = Undefined
    THEN calls' = [calls EXCEPT ![c] =
                      [op |-> op, pc |-> "done", arg |-> t.id, tweet |-> t,
                       io |-> "none", fetched |-> n,
                       scanned |-> calls[c].scanned, ret |-> result]]
    ELSE calls' = [calls EXCEPT ![c] =
                      [op |-> op, pc |-> "mkdir", arg |-> t.id, tweet |-> t,
                       io |-> "pending", fetched |-> n,
                       scanned |-> calls[c].scanned, ret |-> NoRet]]

\* A caller calls cacheTweet(tweet).
CallCacheTweet(c, t) ==
    /\ calls[c].pc = "idle"
    /\ EnterCacheTweet(c, "cacheTweet", t, Value(Undefined), 0)
    /\ UNCHANGED <<tweetCache, files, dirs, lastCached, restarts, queueVars, clientVars>>

\* How an awaited fs call can end.
IoOutcomes == {"ok", "EIO"}

\* `await fs.promises.mkdir(...)` ends: the conversation directory exists and
\* cacheTweet issues writeFile, or the error of mkdir ends the call.
MkdirDone(c, out) ==
    /\ calls[c].pc = "mkdir"
    /\ IF out = "ok"
       THEN /\ dirs' = Mkdir(PathDirname(CachePath(calls[c].tweet)))
            /\ calls' = [calls EXCEPT ![c].pc = "write"]
       ELSE /\ calls' = [calls EXCEPT ![c].pc = "done", ![c].io = out,
                                      ![c].ret = CacheTweetOnIOError(out)]
            /\ UNCHANGED dirs
    /\ tweetCache' = IF out = "ok" THEN tweetCache
                     ELSE MemoryOnIOError(tweetCache, calls[c].tweet)
    /\ UNCHANGED <<files, lastCached, restarts, queueVars, clientVars>>

\* `await fs.promises.writeFile(...)` ends: the file holds the serialized
\* tweet, the in-memory entry is set and the call returns (cacheTweet nothing,
\* getTweet the tweet it fetched); or the error of writeFile ends the call.
WriteFileDone(c, out) ==
    /\ calls[c].pc = "write"
    /\ LET call == calls[c] IN
       IF out = "ok"
       THEN /\ files' = (CachePath(call.tweet) :> JSONstringify(call.tweet)) @@ files
            /\ tweetCache' = MemorySet(tweetCache, call.tweet)
            /\ lastCached' = (call.tweet.id :> call.tweet) @@ lastCached
            /\ calls' = [calls EXCEPT
                   ![c].pc = "done", ![c].io = out,
                   ![c].ret = IF call.op = "getTweet"
                              THEN Value(call.tweet) ELSE Value(Undefined)]
       ELSE /\ calls' = [calls EXCEPT ![c].pc = "done", ![c].io = out,
                                      ![c].ret = CacheTweetOnIOError(out)]
            /\ tweetCache' = MemoryOnIOError(tweetCache, call.tweet)
            /\ UNCHANGED <<files, lastCached>>
    /\ UNCHANGED <<dirs, restarts, queueVars, clientVars>>

\* The synchronous start of getCachedTweet(tweetId), called directly or as the
\* first statement of getTweet: an in-memory entry is returned, otherwise the
\* glob is issued.
Lookup(c, op, tweetId) ==
    IF CacheHas(tweetId)
    THEN IF op = "getTweet" /\ ~GetTweetReturnsCached(tweetCache[tweetId])
         THEN calls' = [calls EXCEPT ![c] =
                  [IdleCall EXCEPT !.op = op, !.pc = "fetch", !.arg = tweetId,
                                   !.fetched = 1]]
         ELSE calls' = [calls EXCEPT ![c] =
                  [IdleCall EXCEPT !.op = op, !.pc = "done", !.arg = tweetId,
                                   !.ret = Value(tweetCache[tweetId])]]
    ELSE calls' = [calls EXCEPT ![c] =
             [IdleCall EXCEPT !.op = op, !.pc = "glob", !.arg = tweetId,
                              !.scanned = TRUE]]

\* A caller calls getCachedTweet(tweetId).
CallGetCachedTweet(c, tweetId) ==
    /\ calls[c].pc = "idle"
    /\ Lookup(c, "getCachedTweet", tweetId)
    /\ UNCHANGED <<tweetCache, files, dirs, lastCached, restarts, queueVars, clientVars>>

\* A caller calls getTweet(tweetId): its first statement is the lookup.
CallGetTweet(c, tweetId) ==
    /\ calls[c].pc = "idle"
    /\ Lookup(c, "getTweet", tweetId)
    /\ UNCHANGED <<tweetCache, files, dirs, lastCached, restarts, queueVars, clientVars>>

\* The glob of getCachedTweet ends.  With a match, files[0] is read, parsed
\* and put in the in-memory tier under the identifier it carries, and is the
\* result; without one the result is undefined, and getTweet goes on to
\* submit the remote call to the request queue.
GlobDone(c) ==
    /\ calls[c].pc = "glob"
    /\ LET found == Glob(CachePattern(calls[c].arg)) IN
       IF found # {}
       THEN \E f \in found :
               LET tweet == JSONparse(files[f]) IN
               /\ tweetCache' = Promote(tweetCache, tweet)
               /\ IF calls[c].op = "getTweet" /\ ~GetTweetReturnsCached(tweet)
                  THEN calls' = [calls EXCEPT ![c].pc = "fetch",
                                              ![c].fetched = @ + 1]
                  ELSE calls' = [calls EXCEPT ![c].pc = "done",
                                              ![c].ret = Value(tweet)]
       ELSE /\ UNCHANGED tweetCache
            /\ IF calls[c].op = "getTweet"
               THEN calls' = [calls EXCEPT ![c].pc = "fetch", ![c].fetched = @ + 1]
               ELSE calls' = [calls EXCEPT ![c].pc = "done",
                                           ![c].ret = Value(Undefined)]
    /\ UNCHANGED <<files, dirs, lastCached, restarts, queueVars, clientVars>>

\* What the remote getTweet(tweetId) can answer: a tweet with that identifier,
\* in any fidelity, or nothing.
RemoteAnswers(tweetId) == {t \in Tweets : t.id = tweetId} \cup {Undefined}

\* The promise of requestQueue.add(() => twitterClient.getTweet(tweetId))
\* settles: rejected, the error is the error of getTweet; resolved, getTweet
\* calls cacheTweet(tweet).
FetchDone(c, ok, t) ==
    /\ calls[c].pc = "fetch"
    /\ t \in RemoteAnswers(calls[c].arg)
    /\ IF ok
       THEN EnterCacheTweet(c, "getTweet", t, Value(t), calls[c].fetched)
       ELSE calls' = [calls EXCEPT ![c].pc = "done", ![c].ret = Throw("remote")]
    /\ UNCHANGED <<tweetCache, files, dirs, lastCached, restarts, queueVars, clientVars>>

\* The caller takes the result of its call.
Return(c) ==
    /\ calls[c].pc = "done"
    /\ calls' = [calls EXCEPT ![c] = IdleCall]
    /\ UNCHANGED <<tweetCache, files, dirs, lastCached, restarts, queueVars, clientVars>>

\* The process ends and a new one starts: the Map is empty again, the calls
\* in progress are gone, the files stay.
Restart ==
    /\ restarts < MaxRestarts
    /\ restarts' = restarts + 1
    /\ tweetCache' = <<>>
    /\ lastCached' = <<>>
    /\ calls' = [c \in Callers |-> IdleCall]
    /\ UNCHANGED <<files, dirs, queueVars, clientVars>>

\* A new ClientBase in a first process with an empty tweetcache directory;
\* the request queue is not looked at.
CacheInit ==
    /\ tweetCache = <<>>
    /\ files = <<>>
    /\ dirs = {}
    /\ calls = [c \in Callers |-> IdleCall]
    /\ lastCached = <<>>
    /\ restarts = 0
    /\ queue = <<>>
    /\ processing = FALSE
    /\ wpc = "idle"
    /\ cur = 0
    /\ reqResult = "none"
    /\ sleep = <<>>
    /\ running = {}
    /\ nAdded = 0
    /\ behaviour = [o \in Ops |-> "ok"]
    /\ attempts = [o \in Ops |-> 0]
    /\ promise = [o \in Ops |-> Pending]
    /\ settleCalls = [o \in Ops |-> 0]
    /\ log = <<>>
    /\ boot = BootIdle
    /\ opKind = NoKinds
    /\ direct = {}
    /\ search = NoSearches
    /\ home = NoHome
    /\ store = <<>>
    /\ snapshot = [exists |-> FALSE, data |-> <<>>]
    /\ pass = NoPasses
    /\ createLog = <<>>
    /\ connections = {}

CacheNext ==
    \/ \E c \in Callers, t \in Tweets \cup {Undefined} : CallCacheTweet(c, t)
    \/ \E c \in Callers, id \in TweetIds : CallGetCachedTweet(c, id)
    \/ \E c \in Callers, id \in TweetIds : CallGetTweet(c, id)
    \/ \E c \in Callers, out \in IoOutcomes : MkdirDone(c, out)
    \/ \E c \in Callers, out \in IoOutcomes : WriteFileDone(c, out)
    \/ \E c \in Callers : GlobDone(c)
    \/ \E c \in Callers, ok \in BOOLEAN, t \in Tweets \cup {Undefined} :
          FetchDone(c, ok, t)
    \/ \E c \in Callers : Return(c)
    \/ Restart

CacheSpec == CacheInit /\ [][CacheNext]_vars

\* A tweet whose file lies under the directory getCachedTweet scans
\* (<__dirname>/tweetcache/<conversation>/<id>.json), left there by a writer
\* other than cacheTweet.
LeftTweet == [id |-> "t1", conversationId |-> "c1", text |-> "full",
              timeParsed |-> "Date"]

\* The directory of that file.
LeftDir == PathDirname(CachePathUnderDirname(LeftTweet))

\* A new ClientBase in a first process that finds the file of LeftTweet in
\* the scanned directory.
CacheWithFileInit ==
    /\ tweetCache = <<>>
    /\ files = (CachePathUnderDirname(LeftTweet) :> JSONstringify(LeftTweet))
    /\ dirs = {SubSeq(LeftDir, 1, n) : n \in 1..Len(LeftDir)}
    /\ calls = [c \in Callers |-> IdleCall]
    /\ lastCached = <<>>
    /\ restarts = 0
    /\ queue = <<>>
    /\ processing = FALSE
    /\ wpc = "idle"
    /\ cur = 0
    /\ reqResult = "none"
    /\ sleep = <<>>
    /\ running = {}
    /\ nAdded = 0
    /\ behaviour = [o \in Ops |-> "ok"]
    /\ attempts = [o \in Ops |-> 0]
    /\ promise = [o \in Ops |-> Pending]
    /\ settleCalls = [o \in Ops |-> 0]
    /\ log = <<>>
    /\ boot = BootIdle
    /\ opKind = NoKinds
    /\ direct = {}
    /\ search = NoSearches
    /\ home = NoHome
    /\ store = <<>>
    /\ snapshot = [exists |-> FALSE, data |-> <<>>]
    /\ pass = NoPasses
    /\ createLog = <<>>
    /\ connections = {}

CacheWithFileSpec == CacheWithFileInit /\ [][CacheNext]_vars

----------------------------------------------------------------------------
(* Bootstrap of ClientBase: the async initialization of the constructor *)

PollThreshold == 10     \* if (loggedInWaits > 10)
PollSleepMs == 2000     \* setTimeout(resolve, 2000) of the polling loop
UserIdDelayMs == 10000  \* setTimeout(resolve, 10000) of the user-id thunk

MaxForcedLogins == 2    \* logins issued by the polling loop per behaviour

InlineSettings == {"absent", "array", "malformed"}
SavedCookies == {"none", "saved"}
CallOutcomes == {"ok", "throws"}

LoginFirst(inline, saved) == "login"
\* The credential source the constructor takes: if (TWITTER_COOKIES) ... else
\* { savedCookies = await loadCookiesFromDatabase(); if (savedCookies) ...
\* else login }
CredentialSource(inline, saved) ==
    IF inline # "absent" THEN "inline"
    ELSE IF saved # "none" THEN "saved"
    ELSE "login"

\* JSON.parse(getSetting("TWITTER_COOKIES")) throws on text that is not JSON.
ParseThrows(inline) == inline = "malformed"

\* The cookies array built from getCookies() after the first login: the
\* key and value of each cookie under fixed domain, path and flags.
MapCookies(cookies) == IF cookies = "raw" THEN "mapped" ELSE cookies

\* catch (error) of the whole function: log, emit 'initializationError'.
InitializationCatch(b, why) ==
    [b EXCEPT !.pc = "stopped", !.failure = why,
              !.logged = Append(@, "Error during Twitter client initialization:"),
              !.emitted = Append(@, "initializationError")]

LoginCatchFallsThrough(b, why) ==
    [b EXCEPT !.pc = "poll", !.failure = why,
              !.logged = Append(@, "Failed to login to Twitter:"),
              !.emitted = Append(@, "loginError")]
\* catch (error) around the first login: log, emit 'loginError', return.
LoginCatch(b, why) ==
    [b EXCEPT !.pc = "stopped", !.failure = why,
              !.logged = Append(@, "Failed to login to Twitter:"),
              !.emitted = Append(@, "loginError")]

ForceLoginAlways(w) == TRUE
\* if (loggedInWaits > 10)
ForceLogin(w) == w > PollThreshold

UserIdNeverMissing(a) == FALSE
\* if (!userId): the thunk returns null after an error, and the remote call
\* may resolve with nothing.
UserIdMissing(a) == a \in {"null", "undefined"}

\* The statements of the constructor's async function up to the polling
\* loop or to the first login call, whichever comes first.
EnterAuthenticating(out) ==
    /\ boot.pc = "init"
    /\ LET src == CredentialSource(boot.inline, boot.saved) IN
       boot' =
         IF src = "inline"
         THEN IF ParseThrows(boot.inline)
              THEN InitializationCatch(boot, "parse")
              ELSE IF out = "ok"
                   THEN [boot EXCEPT !.pc = "poll", !.installed = "inline",
                                     !.steps = <<"setCookies", "saveCookies">>,
                                     !.dbSaved = Append(@, "inline"),
                                     !.persistedBy = "inline"]
                   ELSE InitializationCatch(
                          [boot EXCEPT !.installed = "inline",
                                       !.steps = <<"setCookies", "saveCookies">>],
                          "store")
         ELSE IF src = "saved"
         THEN IF out = "ok"
              THEN [boot EXCEPT !.pc = "poll", !.installed = boot.saved,
                                !.steps = <<"loadCookies", "setCookies">>]
              ELSE InitializationCatch(
                     [boot EXCEPT !.steps = <<"loadCookies">>], "store")
         ELSE IF out = "ok"
              THEN [boot EXCEPT !.pc = "login",
                                !.steps = <<"loadCookies", "login">>]
              ELSE InitializationCatch(
                     [boot EXCEPT !.steps = <<"loadCookies">>], "store")
    /\ UNCHANGED <<queueVars, cacheVars, fetchVars, reconVars>>

\* The first login call ends: getCookies(), the mapped array, and
\* saveCookiesToDatabase(), all inside the inner try.
LoginDone(out, saveOut) ==
    /\ boot.pc = "login"
    /\ boot' =
         IF out = "throws"
         THEN LoginCatch(boot, "login")
         ELSE IF saveOut = "throws"
              THEN LoginCatch(
                     [boot EXCEPT !.installed = "raw",
                                  !.steps = Append(@, "saveCookies")], "login")
              ELSE [boot EXCEPT !.pc = "poll", !.installed = "raw",
                                !.steps = Append(@, "saveCookies"),
                                !.dbSaved = Append(@, MapCookies("raw")),
                                !.persistedBy = "login"]
    /\ UNCHANGED <<queueVars, cacheVars, fetchVars, reconVars>>

\* while (!(await isLoggedIn())): the answer arrives.  On `true` the loop
\* ends and the user-id thunk is given to requestQueue.add().
Poll(ans) ==
    /\ boot.pc = "poll"
    /\ IF ans = "active"
       THEN /\ Enqueue("ok")
            /\ opKind' = [opKind EXCEPT ![nAdded + 1] = "getUserIdByScreenName"]
            /\ boot' = [boot EXCEPT !.pc = "resolve", !.active = TRUE,
                                    !.thunk = "delay", !.timer = UserIdDelayMs]
            /\ UNCHANGED <<cacheVars, direct, search, home, reconVars>>
       ELSE /\ boot' = IF ans = "inactive"
                       THEN [boot EXCEPT !.pc = "sleep", !.timer = PollSleepMs,
                                         !.failedPolls = @ + 1]
                       ELSE InitializationCatch(boot, "poll")
            /\ UNCHANGED <<queueVars, cacheVars, fetchVars, reconVars>>

\* The 2000 ms timer of the loop body fires: below the threshold the counter
\* goes up and the loop polls again, above it the loop calls login().
PollSleepDone ==
    /\ boot.pc = "sleep"
    /\ IF ForceLogin(boot.loggedInWaits)
       THEN /\ boot.forced < MaxForcedLogins
            /\ boot' = [boot EXCEPT !.pc = "forcedLogin", !.forced = @ + 1,
                                    !.timer = 0,
                                    !.pollsBefore = Append(@, boot.failedPolls),
                                    !.logged = Append(@, "Failed to login to Twitter")]
       ELSE boot' = [boot EXCEPT !.pc = "poll", !.timer = 0,
                                 !.loggedInWaits = @ + 1]
    /\ UNCHANGED <<queueVars, cacheVars, fetchVars, reconVars>>

\* The login call of the loop ends: getCookies(), fs.writeFileSync of the
\* cookies file, loggedInWaits = 0, then the loggedInWaits++ of the loop body.
ForcedLoginDone(out) ==
    /\ boot.pc = "forcedLogin"
    /\ boot' =
         IF out = "throws"
         THEN InitializationCatch(boot, "forcedLogin")
         ELSE [boot EXCEPT !.pc = "poll", !.installed = "raw",
                           !.cookieFile = "raw", !.failedPolls = 0,
                           !.persistedBy = "forcedLogin",
                           !.loggedInWaits = 0 + 1]
    /\ UNCHANGED <<queueVars, cacheVars, fetchVars, reconVars>>

\* The queue has called the user-id thunk and its 10000 ms timer fires: the
\* thunk calls getUserIdByScreenName().
UserIdDelayElapsed ==
    /\ boot.thunk = "delay"
    /\ \E o \in running : opKind[o] = "getUserIdByScreenName"
    /\ boot' = [boot EXCEPT !.thunk = "remote", !.timer = 0,
                            !.idCalls = @ + 1]
    /\ UNCHANGED <<queueVars, cacheVars, fetchVars, reconVars>>

UserIdAnswers == {"u1", "undefined", "throws"}

\* getUserIdByScreenName() ends; the thunk's catch turns an error into null.
UserIdAnswer(ans) ==
    /\ boot.thunk = "remote"
    /\ boot' = IF ans = "throws"
               THEN [boot EXCEPT !.thunk = "done", !.answer = "null",
                                 !.logged = Append(@, "Error getting user ID:")]
               ELSE [boot EXCEPT !.thunk = "done", !.answer = ans]
    /\ UNCHANGED <<queueVars, cacheVars, fetchVars, reconVars>>

\* The thunk returns and the wrapper of add() resolves its promise.
BootThunkSettle ==
    /\ boot.thunk = "done"
    /\ \E o \in running : opKind[o] = "getUserIdByScreenName" /\ ThunkSettle(o)

\* The constructor's function resumes with the value of add()'s promise.
AfterUserId ==
    /\ boot.pc = "resolve"
    /\ \E o \in Ops : /\ opKind[o] = "getUserIdByScreenName"
                      /\ promise[o].state = "resolved"
    /\ boot' =
         IF UserIdMissing(boot.answer)
         THEN [boot EXCEPT !.pc = "stopped", !.failure = "userId",
                           !.logged = Append(@, "Failed to get user ID")]
         ELSE [boot EXCEPT !.pc = "populate", !.twitterUserId = boot.answer,
                           !.populateRuns = @ + 1]
    /\ UNCHANGED <<queueVars, cacheVars, fetchVars, reconVars>>

PopulateOutcomes == {"ok", "populateThrows", "onReadyThrows"}

ReadyRegardless(out) == TRUE
\* await populateTimeline(); this.onReady(): the call of onReady is reached
\* only when populateTimeline() did not throw.
ReadyAfterPopulate(out) == out # "populateThrows"

\* await populateTimeline() ends; this.onReady() is called and returns or
\* throws (the base class's onReady throws).
PopulateDone(out) ==
    /\ boot.pc = "populate"
    /\ boot' =
         LET b == [boot EXCEPT !.populated = (out # "populateThrows")] IN
         IF ~ReadyAfterPopulate(out)
         THEN InitializationCatch(b, "populate")
         ELSE IF out = "onReadyThrows"
              THEN InitializationCatch([b EXCEPT !.onReadyCalls = @ + 1],
                                       "onReady")
              ELSE [b EXCEPT !.pc = "ready", !.onReadyCalls = @ + 1]
    /\ UNCHANGED <<queueVars, cacheVars, fetchVars, reconVars>>

\* A client under construction: the settings and the credential store are
\* given, nothing has run; the queue and the cache are empty.
BootInit ==
    /\ \E i \in InlineSettings, s \in SavedCookies :
          boot = [BootIdle EXCEPT !.inline = i, !.saved = s]
    /\ opKind = NoKinds
    /\ direct = {}
    /\ search = NoSearches
    /\ home = NoHome
    /\ store = <<>>
    /\ snapshot = [exists |-> FALSE, data |-> <<>>]
    /\ pass = NoPasses
    /\ createLog = <<>>
    /\ connections = {}
    /\ queue = <<>>
    /\ processing = FALSE
    /\ wpc = "idle"
    /\ cur = 0
    /\ reqResult = "none"
    /\ sleep = <<>>
    /\ running = {}
    /\ nAdded = 0
    /\ behaviour = [o \in Ops |-> "ok"]
    /\ attempts = [o \in Ops |-> 0]
    /\ promise = [o \in Ops |-> Pending]
    /\ settleCalls = [o \in Ops |-> 0]
    /\ log = <<>>
    /\ tweetCache = <<>>
    /\ files = <<>>
    /\ dirs = {}
    /\ calls = <<>>
    /\ lastCached = <<>>
    /\ restarts = 0

BootNext ==
    \/ \E out \in CallOutcomes : EnterAuthenticating(out)
    \/ \E out \in CallOutcomes, saveOut \in CallOutcomes : LoginDone(out, saveOut)
    \/ \E ans \in {"active", "inactive", "throws"} : Poll(ans)
    \/ PollSleepDone
    \/ \E out \in CallOutcomes : ForcedLoginDone(out)
    \/ UserIdDelayElapsed
    \/ \E ans \in UserIdAnswers : UserIdAnswer(ans)
    \/ BootThunkSettle
    \/ AfterUserId
    \/ \E out \in PopulateOutcomes : PopulateDone(out)
    \/ \E r \in RandomSamples : WorkerResume(r)
    \/ TimerFires

BootSpec == BootInit /\ [][BootNext]_vars

\* loadCookiesFromDatabase() of the next process: the cookies of the memory
\* saveCookiesToDatabase() created last, or those an earlier process left.
\* The cookies file of the polling loop is not read.
LoadCookiesFromDatabase(b) ==
    IF b.dbSaved # <<>> THEN b.dbSaved[Len(b.dbSaved)] ELSE b.saved

\* The process ends and the agent is started again without TWITTER_COOKIES:
\* a new ClientBase is constructed with a new queue; the credential store
\* and the cookies file are as the old process left them.
BootRestart ==
    /\ boot.pc \in {"ready", "stopped"}
    /\ restarts < MaxRestarts
    /\ restarts' = restarts + 1
    /\ boot' = [BootIdle EXCEPT !.inline = "absent",
                                !.saved = LoadCookiesFromDatabase(boot),
                                !.cookieFile = boot.cookieFile,
                                !.prev = boot.persistedBy]
    /\ opKind' = NoKinds
    /\ queue' = <<>>
    /\ processing' = FALSE
    /\ wpc' = "idle"
    /\ cur' = 0
    /\ reqResult' = "none"
    /\ sleep' = <<>>
    /\ running' = {}
    /\ nAdded' = 0
    /\ behaviour' = [o \in Ops |-> "ok"]
    /\ attempts' = [o \in Ops |-> 0]
    /\ promise' = [o \in Ops |-> Pending]
    /\ settleCalls' = [o \in Ops |-> 0]
    /\ log' = <<>>
    /\ UNCHANGED <<tweetCache, files, dirs, calls, lastCached>>
    /\ UNCHANGED <<direct, search, home, reconVars>>

BootRestartNext == BootNext \/ BootRestart

BootRestartSpec == BootInit /\ [][BootRestartNext]_vars

----------------------------------------------------------------------------
(* Remote fetch and search calls: getTweet, fetchSearchTweets,               *)
(* fetchHomeTimeline                                                         *)

\* getTweet(tweetId) after a cache miss: requestQueue.add(() =>
\* this.twitterClient.getTweet(tweetId)).  The thunk makes the remote call
\* when the queue calls it.
GetTweetMiss(b) ==
    /\ Enqueue(b)
    /\ opKind' = [opKind EXCEPT ![nAdded + 1] = "getTweet"]
    /\ UNCHANGED <<cacheVars, bootVars, direct, search, home, reconVars>>

\* The thunk of a getTweet operation settles as the remote getTweet does.
GetTweetDone(o) ==
    /\ opKind[o] = "getTweet"
    /\ ThunkSettle(o)

\* { tweets: [] }
EmptyTweets == 0
\* A remote answer that is undefined or null.
Nullish == 0 - (MaxOps + 1)
TimerNotArmed == "none"
\* new Promise((resolve) => setTimeout(() => resolve({ tweets: [] }), 10000))
TimerArmed == "armed"

\* fetchSearchTweets(...): timeoutPromise is built and its timer armed, then
\* requestQueue.add(async () => await Promise.race([
\* this.twitterClient.fetchSearchTweets(...), timeoutPromise])).
FetchSearchTweets(b) ==
    /\ Enqueue(b)
    /\ opKind' = [opKind EXCEPT ![nAdded + 1] = "fetchSearchTweets"]
    /\ search' = [search EXCEPT ![nAdded + 1].timer = TimerArmed]
    /\ UNCHANGED <<cacheVars, bootVars, direct, home, reconVars>>

\* The remote fetchSearchTweets call of operation o has been made (the queue
\* has called the thunk) and has not settled.
SearchInFlight(o) ==
    /\ opKind[o] = "fetchSearchTweets"
    /\ attempts[o] >= 1
    /\ search[o].remote = "unsettled"

\* result ?? { tweets: [] }
ResultOrEmpty(result) == IF result = Nullish THEN EmptyTweets ELSE result

SearchCatchRethrows(error) == [kind |-> "throw", val |-> error]
\* catch (error) { logger.error(...); return { tweets: [] }; }
SearchCatch(error) == [kind |-> "value", val |-> EmptyTweets]

\* What fetchSearchTweets returns when the promise p of requestQueue.add()
\* has settled: the continuation of its await runs before any timer or I/O
\* callback.
SearchReturns(p) ==
    IF p.state = "resolved"
    THEN [kind |-> "value", val |-> ResultOrEmpty(p.val)]
    ELSE SearchCatch(p.val)

\* The timer of timeoutPromise fires, 10000 ms after the call of
\* fetchSearchTweets: timeoutPromise resolves with { tweets: [] }.  (Once
\* fetchSearchTweets has returned nothing awaits that promise.)
SearchTimerFires(o) ==
    /\ search[o].timer = "armed"
    /\ search[o].ret.kind = "none"
    /\ search' = [search EXCEPT ![o].timer = "fired"]
    /\ UNCHANGED <<queueVars, cacheVars, bootVars, opKind, direct, home, reconVars>>

\* Promise.race of a running thunk settles with timeoutPromise, which has
\* resolved: the thunk resolves with { tweets: [] } and fetchSearchTweets
\* returns.  The remote call stays in flight.
SearchRaceTimeout(o) ==
    /\ opKind[o] = "fetchSearchTweets"
    /\ search[o].timer = "fired"
    /\ LET out == [kind |-> "ok", val |-> EmptyTweets] IN
       /\ SettleThunk(o, out)
       /\ search' = [search EXCEPT ![o].ret =
                        SearchReturns(WrapperSettle(promise[o], out))]
    /\ UNCHANGED <<cacheVars, bootVars, opKind, direct, home, reconVars>>

\* The remote fetchSearchTweets call settles: resolved with tweets or with
\* nothing, or rejected.  It settles the race of its thunk, and
\* fetchSearchTweets returns, unless timeoutPromise has settled the race or
\* is about to.
SearchRemoteSettle(o, nullish) ==
    /\ SearchInFlight(o)
    /\ LET remote == ThunkOutcome(behaviour[o], o, attempts[o])
           out == IF remote.kind = "ok" /\ nullish
                  THEN [kind |-> "ok", val |-> Nullish] ELSE remote
           settled == IF out.kind = "ok" THEN "resolved" ELSE "rejected"
       IN IF o \in running /\ search[o].timer # "fired"
          THEN /\ SettleThunk(o, out)
               /\ search' = [search EXCEPT
                      ![o].remote = settled,
                      ![o].ret = SearchReturns(WrapperSettle(promise[o], out))]
          ELSE /\ search' = [search EXCEPT ![o].remote = settled]
               /\ UNCHANGED queueVars
    /\ UNCHANGED <<cacheVars, bootVars, opKind, direct, home, reconVars>>

\* JavaScript values of the items of the remote home timeline, each written
\* as a sequence: a string or a list by its content, undefined and null by a
\* mark of their own.
JsUndefined == <<"#undefined">>
JsNull == <<"#null">>
\* The TypeError of reading a property of undefined.
TypeError == <<"#TypeError">>

\* The attributes fetchHomeTimeline takes from the flattened field or, failing
\* that, from core.user_results.result.legacy, from legacy, from
\* legacy.entities, or from legacy.entities.media.
CoreAttrs == {"name", "username"}
LegacyAttrs == {"text", "inReplyToStatusId", "createdAt", "userId",
                "conversationId"}
EntityAttrs == {"hashtags", "mentions", "urls"}
MediaAttrs == {"photos", "videos"}
NormalizedAttrs == CoreAttrs \cup LegacyAttrs \cup EntityAttrs \cup MediaAttrs

\* The media type a media attribute keeps.
MediaType(a) == IF a = "photos" THEN "photo" ELSE "video"

IsNullish(v) == v = JsUndefined \/ v = JsNull

CoalesceLegacyFirst(a, b) == IF IsNullish(b) THEN a ELSE b
\* a ?? b
Coalesce(a, b) == IF IsNullish(a) THEN b ELSE a

\* media?.filter((media) => media.type === type)
FilterMedia(media, type) ==
    IF IsNullish(media) THEN JsUndefined
    ELSE LET Keep(x) == x = type IN SelectSeq(media, Keep)

\* The nested expression of attribute a for the item tweet:
\*   tweet.core?.user_results?.result?.legacy.<a>
\*   tweet.legacy?.<a>
\*   tweet.legacy?.entities.<a>
\*   tweet.legacy?.entities.media?.filter(...)
\* a missing object before `?.` gives undefined, one before `.` a TypeError.
NestedValue(tweet, a) ==
    IF a \in CoreAttrs
    THEN IF tweet.core = "absent" THEN JsUndefined
         ELSE IF tweet.core = "noLegacy" THEN TypeError
         ELSE tweet.nested[a]
    ELSE IF tweet.legacy = "absent" THEN JsUndefined
    ELSE IF a \in LegacyAttrs THEN tweet.nested[a]
    ELSE IF tweet.legacy = "noEntities" THEN TypeError
    ELSE IF a \in EntityAttrs THEN tweet.nested[a]
    ELSE FilterMedia(tweet.media, MediaType(a))

\* The value of attribute a in the object built for tweet.
NormalizedValue(tweet, a) ==
    IF a \in MediaAttrs
    THEN Coalesce(Coalesce(tweet.flat[a], NestedValue(tweet, a)), <<>>)
    ELSE Coalesce(tweet.flat[a], NestedValue(tweet, a))

\* The object the map callback builds for tweet.
NormalizedTweet(tweet) ==
    [id |-> tweet.rest_id,
     name |-> NormalizedValue(tweet, "name"),
     username |-> NormalizedValue(tweet, "username"),
     text |-> NormalizedValue(tweet, "text"),
     inReplyToStatusId |-> NormalizedValue(tweet, "inReplyToStatusId"),
     createdAt |-> NormalizedValue(tweet, "createdAt"),
     userId |-> NormalizedValue(tweet, "userId"),
     conversationId |-> NormalizedValue(tweet, "conversationId"),
     hashtags |-> NormalizedValue(tweet, "hashtags"),
     mentions |-> NormalizedValue(tweet, "mentions"),
     photos |-> NormalizedValue(tweet, "photos"),
     thread |-> <<>>,
     urls |-> NormalizedValue(tweet, "urls"),
     videos |-> NormalizedValue(tweet, "videos")]

\* .filter((t) => t.__typename !== "TweetWithVisibilityResults")
KeptItems(raw) ==
    LET Keep(t) == t.typename # "TweetWithVisibilityResults"
    IN SelectSeq(raw, Keep)

\* The result of fetchHomeTimeline for the remote answer raw: the objects of
\* the kept items, or the TypeError one of them raised.
MapHomeTimeline(raw) ==
    LET kept == KeptItems(raw)
        objs == [k \in 1..Len(kept) |-> NormalizedTweet(kept[k])]
    IN IF \E k \in 1..Len(kept), a \in NormalizedAttrs : objs[k][a] = TypeError
       THEN [kind |-> "throw", tweets |-> <<>>]
       ELSE [kind |-> "value", tweets |-> objs]

\* fetchHomeTimeline(count): await this.twitterClient.fetchHomeTimeline(count,
\* []) is called by the method itself.
FetchHomeTimeline(c) ==
    /\ c \notin direct
    /\ direct' = direct \cup {c}
    /\ UNCHANGED <<queueVars, cacheVars, bootVars, opKind, search, home, reconVars>>

\* The remote fetchHomeTimeline call of caller c ends.
HomeTimelineDone(c) ==
    /\ c \in direct
    /\ direct' = direct \ {c}
    /\ home' = [home EXCEPT !.out = MapHomeTimeline(home.raw)]
    /\ UNCHANGED <<queueVars, cacheVars, bootVars, opKind, search, reconVars>>

\* A ready client: an idle queue and no remote call in flight.
FetchInit ==
    /\ opKind = NoKinds
    /\ direct = {}
    /\ search = NoSearches
    /\ home = NoHome
    /\ store = <<>>
    /\ snapshot = [exists |-> FALSE, data |-> <<>>]
    /\ pass = NoPasses
    /\ createLog = <<>>
    /\ connections = {}
    /\ boot = BootIdle
    /\ queue = <<>>
    /\ processing = FALSE
    /\ wpc = "idle"
    /\ cur = 0
    /\ reqResult = "none"
    /\ sleep = <<>>
    /\ running = {}
    /\ nAdded = 0
    /\ behaviour = [o \in Ops |-> "ok"]
    /\ attempts = [o \in Ops |-> 0]
    /\ promise = [o \in Ops |-> Pending]
    /\ settleCalls = [o \in Ops |-> 0]
    /\ log = <<>>
    /\ tweetCache = <<>>
    /\ files = <<>>
    /\ dirs = {}
    /\ calls = <<>>
    /\ lastCached = <<>>
    /\ restarts = 0

FetchNext ==
    \/ \E b \in Behaviours : GetTweetMiss(b)
    \/ \E b \in Behaviours : FetchSearchTweets(b)
    \/ \E c \in Callers : FetchHomeTimeline(c)
    \/ \E c \in Callers : HomeTimelineDone(c)
    \/ \E o \in Ops : GetTweetDone(o)
    \/ \E o \in Ops : SearchTimerFires(o)
    \/ \E o \in Ops : SearchRaceTimeout(o)
    \/ \E o \in Ops, nullish \in BOOLEAN : SearchRemoteSettle(o, nullish)
    \/ \E r \in RandomSamples : WorkerResume(r)
    \/ TimerFires

FetchSpec == FetchInit /\ [][FetchNext]_vars

\* Timers fire, ready continuations run, and the loop of the queue goes on.
\* Nothing obliges a remote call to settle.
FetchFairness ==
    /\ \A o \in Ops : WF_vars(SearchTimerFires(o))
    /\ \A o \in Ops : WF_vars(SearchRaceTimeout(o))
    /\ WF_vars(\E r \in RandomSamples : WorkerResume(r))
    /\ WF_vars(TimerFires)

\* An item of the remote home timeline in which attribute a has the flattened
\* value fa and the nested value la, and every other attribute the flattened
\* value fo and a nested value of its own.
RawTweet(typename, core, legacy, a, fa, la, fo) ==
    [typename |-> typename,
     rest_id |-> "t1",
     flat |-> [x \in NormalizedAttrs |-> IF x = a THEN fa ELSE fo],
     core |-> core,
     legacy |-> legacy,
     nested |-> [x \in NormalizedAttrs |-> IF x = a THEN la ELSE <<"legacy">>],
     media |-> IF a \in MediaAttrs /\ IsNullish(la)
               THEN JsUndefined ELSE <<"photo", "video", "photo">>]

\* The items the remote home timeline is drawn from.
RawTweets ==
    {RawTweet(typename, core, legacy, a, fa, la, fo) :
        typename \in {"Tweet", "TweetWithVisibilityResults"},
        core \in {"absent", "noLegacy", "present"},
        legacy \in {"absent", "noEntities", "present"},
        a \in NormalizedAttrs,
        fa \in {JsUndefined, JsNull, <<"">>, <<"flat">>},
        la \in {JsUndefined, <<"legacy">>},
        fo \in {JsUndefined, <<"flat">>}}

\* A ready client and a remote home timeline of one item.
HomeInit ==
    /\ opKind = NoKinds
    /\ direct = {}
    /\ search = NoSearches
    /\ \E t \in RawTweets : home = [NoHome EXCEPT !.raw = <<t>>]
    /\ store = <<>>
    /\ snapshot = [exists |-> FALSE, data |-> <<>>]
    /\ pass = NoPasses
    /\ createLog = <<>>
    /\ connections = {}
    /\ boot = BootIdle
    /\ queue = <<>>
    /\ processing = FALSE
    /\ wpc = "idle"
    /\ cur = 0
    /\ reqResult = "none"
    /\ sleep = <<>>
    /\ running = {}
    /\ nAdded = 0
    /\ behaviour = [o \in Ops |-> "ok"]
    /\ attempts = [o \in Ops |-> 0]
    /\ promise = [o \in Ops |-> Pending]
    /\ settleCalls = [o \in Ops |-> 0]
    /\ log = <<>>
    /\ tweetCache = <<>>
    /\ files = <<>>
    /\ dirs = {}
    /\ calls = <<>>
    /\ lastCached = <<>>
    /\ restarts = 0

HomeNext ==
    \/ \E c \in Callers : FetchHomeTimeline(c)
    \/ \E c \in Callers : HomeTimelineDone(c)

HomeTimelineSpec == HomeInit /\ [][HomeNext]_vars

\* The search calls of a client and its getTweet calls, without the home
\* timeline.
SearchNext ==
    \/ \E b \in Behaviours : GetTweetMiss(b)
    \/ \E b \in Behaviours : FetchSearchTweets(b)
    \/ \E o \in Ops : GetTweetDone(o)
    \/ \E o \in Ops : SearchTimerFires(o)
    \/ \E o \in Ops : SearchRaceTimeout(o)
    \/ \E o \in Ops, nullish \in BOOLEAN : SearchRemoteSettle(o, nullish)
    \/ \E r \in RandomSamples : WorkerResume(r)
    \/ TimerFires

SearchSpec == FetchInit /\ [][SearchNext]_vars

SearchFairSpec == SearchSpec /\ FetchFairness

----------------------------------------------------------------------------
(* populateTimeline: the clients of one agent reconcile against one store *)

\* this.runtime.agentId
AgentId == "agent"

\* Strings are sequences of pieces: a + b is the concatenation.
\* stringToUuid(s) is a function of the string and never a tweet id.
stringToUuid(s) == <<"uuid">> \o s

\* A tweet of a search result.  t2 answers t1.
SearchTweet(id) ==
    [id |-> id, conversationId |-> ConvOf(id),
     inReplyToStatusId |-> IF id = "t2" THEN "t1" ELSE "undefined",
     timestamp |-> IF id = "t1" THEN 1 ELSE 2, timeParsed |-> "Date"]

\* What fetchSearchTweets() can resolve with: the tweets found, or
\* { tweets: [] } after an error or a timeout.
SearchResults ==
    {<<>>, <<SearchTweet("t1")>>, <<SearchTweet("t1"), SearchTweet("t2")>>}

\* timeline_cache.json
NoSnapshot == [exists |-> FALSE, data |-> <<>>]
\* fs.writeFileSync(cacheFile, JSON.stringify(allTweets))
WriteSnapshot(tweets) ==
    [exists |-> TRUE,
     data |-> [k \in 1..Len(tweets) |-> JSONstringify(tweets[k])]]
\* JSON.parse(fs.readFileSync(cacheFile, "utf-8"))
ReadSnapshot(file) == [k \in 1..Len(file.data) |-> JSONparse(file.data[k])]

\* stringToUuid(tweet.id + "-" + this.runtime.agentId)
MemoryId(tweet) == stringToUuid(<<tweet.id, "-", AgentId>>)

\* stringToUuid(tweet.conversationId ?? "default-room-" + this.runtime.agentId)
RoomId(tweet) ==
    IF tweet.conversationId = "undefined"
    THEN stringToUuid(<<"default-room-", AgentId>>)
    ELSE stringToUuid(<<tweet.conversationId>>)

\* Snapshot branch: roomIds: cachedResults.map(tweet =>
\* stringToUuid(tweet.conversationId + "-" + this.runtime.agentId))
SnapshotRoomIds(tweets) ==
    {stringToUuid(<<tweets[k].conversationId, "-", AgentId>>) :
        k \in 1..Len(tweets)}

\* Fresh branch: tweetUuids, from the Set of the tweet ids
FreshRoomIds(tweets) ==
    {stringToUuid(<<tweets[k].id, "-", AgentId>>) : k \in 1..Len(tweets)}

\* content.inReplyTo of the snapshot branch
InReplyToResumed(tweet) ==
    IF tweet.inReplyToStatusId # "undefined"
    THEN stringToUuid(<<tweet.inReplyToStatusId, "-", AgentId>>)
    ELSE <<>>

\* content.inReplyTo of the fresh branch
InReplyToFresh(tweet) ==
    IF tweet.inReplyToStatusId # "undefined"
    THEN stringToUuid(<<tweet.inReplyToStatusId>>)
    ELSE <<>>

\* The memory each branch gives to createMemory().
Memory(tweet, inReplyTo) ==
    [id |-> MemoryId(tweet), roomId |-> RoomId(tweet),
     inReplyTo |-> inReplyTo, createdAt |-> tweet.timestamp * 1000]

\* The record store (messageManager): it keeps every memory it is given.
CreateMemory(st, memory) == Append(st, memory)
GetMemoryById(st, id) == {st[k] : k \in {n \in 1..Len(st) : st[n].id = id}}
GetMemoriesByRoomIds(st, roomIds) ==
    {st[k] : k \in {n \in 1..Len(st) : st[n].roomId \in roomIds}}

\* A memory of another writer of the agent's store: its id is the tweet id
\* itself and its room is keyed by conversation and agent.
OtherMemory ==
    [id |-> <<"t1">>, roomId |-> stringToUuid(<<ConvOf("t1"), "-", AgentId>>),
     inReplyTo |-> <<>>, createdAt |-> 1000]

\* Snapshot branch: existingMemoryIds = new Set(memory.id.toString())
SnapshotExistingIds(st, tweets) ==
    {mem.id : mem \in GetMemoriesByRoomIds(st, SnapshotRoomIds(tweets))}

\* cachedResults.some(tweet => existingMemoryIds.has(tweet.id))
SomeCachedTweetsExist(existingIds, tweets) ==
    \E k \in 1..Len(tweets) : <<tweets[k].id>> \in existingIds

\* cachedResults.filter(tweet => !existingMemoryIds.has(tweet.id))
SnapshotTweetsToSave(existingIds, tweets) ==
    LET Missing(t) == <<t.id>> \notin existingIds IN SelectSeq(tweets, Missing)

\* Fresh branch: existingMemoryIds = new Set(memory.roomId)
FreshExistingIds(st, tweets) ==
    {mem.roomId : mem \in GetMemoriesByRoomIds(st, FreshRoomIds(tweets))}

\* allTweets.filter(tweet => !existingMemoryIds.has(stringToUuid(tweet.id +
\* "-" + agentId)))
FreshTweetsToSave(existingIds, tweets) ==
    LET Missing(t) == MemoryId(t) \notin existingIds IN SelectSeq(tweets, Missing)

\* The tweet of tweetsToSave the loop of instance i is at, and the one after.
CurrentToSave(i) == pass[i].toSave[pass[i].k]
NextToSave(i) == pass[i].toSave[pass[i].k + 1]

\* `await this.runtime.ensureConnection(...)` stands in no try block: a
\* rejection leaves the loop and populateTimeline().
EnsureConnectionIgnoresFailure(out) == FALSE
EnsureConnectionThrows(out) == out # "ok"

\* The room an ensureConnection() call that succeeded leaves connected, and
\* the tweets whose call succeeded in this run.
EnsureConnection(conns, out, tweet) ==
    IF out = "ok" THEN conns \cup {RoomId(tweet)} ELSE conns
Ensured(p, out, tweet) ==
    IF out = "ok" THEN p.ensured \cup {tweet.id} ELSE p.ensured

PassDone(p, st) == [p EXCEPT !.pc = "done", !.endStore = st]
PassThrew(p, st) == [p EXCEPT !.pc = "threw", !.endStore = st]
Ended == {i \in Instances : pass[i].pc \in {"done", "threw"}}

\* populateTimeline() is called (by the bootstrap, once the user id is set):
\* with a snapshot file it reads it and asks the store for the memories of
\* its rooms; without one it calls fetchSearchTweets().
StartPass(i) ==
    /\ pass[i].pc = "idle"
    /\ pass' = [pass EXCEPT ![i] =
                  IF snapshot.exists
                  THEN [@ EXCEPT !.pc = "snapshotQuery", !.after = Ended,
                                 !.tweets = ReadSnapshot(snapshot),
                                 !.startStore = store,
                                 !.startSnapshot = ReadSnapshot(snapshot)]
                  ELSE [@ EXCEPT !.pc = "search", !.after = Ended,
                                 !.startStore = store]]
    /\ UNCHANGED <<store, snapshot, createLog, connections>>
    /\ UNCHANGED <<queueVars, cacheVars, bootVars, fetchVars>>

\* getMemoriesByRoomIds() of the snapshot branch answers: a resumed run when
\* some cached tweet is among the existing ids, a fresh run otherwise.
SnapshotQueryDone(i) ==
    /\ pass[i].pc = "snapshotQuery"
    /\ LET ids == SnapshotExistingIds(store, pass[i].tweets)
           toSave == SnapshotTweetsToSave(ids, pass[i].tweets)
       IN pass' = [pass EXCEPT ![i] =
                     IF SomeCachedTweetsExist(ids, pass[i].tweets)
                     THEN IF Len(toSave) = 0
                          THEN PassDone(@, store)
                          ELSE [@ EXCEPT !.pc = "resumeEnsure",
                                         !.toSave = toSave, !.k = 1,
                                         !.ensureCalls = {toSave[1].id}]
                     ELSE [@ EXCEPT !.pc = "search", !.tweets = <<>>]]
    /\ UNCHANGED <<store, snapshot, createLog, connections>>
    /\ UNCHANGED <<queueVars, cacheVars, bootVars, fetchVars>>

\* Resumed run: ensureConnection() of the current tweet ends; the loop then
\* asks getMemoryById() for the tweet's memory.
ResumeEnsureDone(i, out) ==
    /\ pass[i].pc = "resumeEnsure"
    /\ IF ~EnsureConnectionThrows(out)
       THEN /\ connections' = EnsureConnection(connections, out, CurrentToSave(i))
            /\ pass' = [pass EXCEPT ![i] =
                          [@ EXCEPT !.pc = "resumeCheck",
                                    !.ensured = Ensured(pass[i], out, CurrentToSave(i))]]
       ELSE /\ pass' = [pass EXCEPT ![i] = PassThrew(@, store)]
            /\ UNCHANGED connections
    /\ UNCHANGED <<store, snapshot, createLog>>
    /\ UNCHANGED <<queueVars, cacheVars, bootVars, fetchVars>>

\* Resumed run: getMemoryById() answers: a memory ends the loop (break),
\* none lets the loop call createMemory().
ResumeCheckDone(i) ==
    /\ pass[i].pc = "resumeCheck"
    /\ pass' = [pass EXCEPT ![i] =
                  IF GetMemoryById(store, MemoryId(@.toSave[@.k])) # {}
                  THEN PassDone(@, store)
                  ELSE [@ EXCEPT !.pc = "resumeCreate"]]
    /\ UNCHANGED <<store, snapshot, createLog, connections>>
    /\ UNCHANGED <<queueVars, cacheVars, bootVars, fetchVars>>

\* Resumed run: createMemory() ends; next tweet, or return after the last.
ResumeCreateDone(i) ==
    /\ pass[i].pc = "resumeCreate"
    /\ LET t == pass[i].toSave[pass[i].k]
           memory == Memory(t, InReplyToResumed(t))
       IN /\ store' = CreateMemory(store, memory)
          /\ createLog' = Append(createLog, [by |-> i, id |-> memory.id])
          /\ pass' = [pass EXCEPT ![i] =
                        IF @.k = Len(@.toSave)
                        THEN PassDone(@, CreateMemory(store, memory))
                        ELSE [@ EXCEPT !.pc = "resumeEnsure", !.k = @ + 1,
                                       !.ensureCalls =
                                           @ \cup {NextToSave(i).id}]]
    /\ UNCHANGED <<snapshot, connections>>
    /\ UNCHANGED <<queueVars, cacheVars, bootVars, fetchVars>>

\* The requestQueue of instance i (each ClientBase has a queue of its own)
\* calls the thunk of the search, at once or after the pacing delay of the
\* request before it: the remote call is made on the Scraper all instances
\* share.
SearchStarted(i) ==
    /\ pass[i].pc = "search"
    /\ pass' = [pass EXCEPT ![i].pc = "searching"]
    /\ UNCHANGED <<store, snapshot, createLog, connections>>
    /\ UNCHANGED <<queueVars, cacheVars, bootVars, fetchVars>>

\* fetchSearchTweets() resolves; the fresh run asks the store for the
\* memories of the rooms tweetUuids.
SearchDone(i, result) ==
    /\ pass[i].pc = "searching"
    /\ pass' = [pass EXCEPT ![i] = [@ EXCEPT !.pc = "freshQuery",
                                             !.tweets = result,
                                             !.fetched = "yes"]]
    /\ UNCHANGED <<store, snapshot, createLog, connections>>
    /\ UNCHANGED <<queueVars, cacheVars, bootVars, fetchVars>>

\* getMemoriesByRoomIds() of the fresh run answers; tweetsToSave is built and
\* ensureUserExists() called.
FreshQueryDone(i) ==
    /\ pass[i].pc = "freshQuery"
    /\ LET ids == FreshExistingIds(store, pass[i].tweets) IN
       pass' = [pass EXCEPT ![i] =
                  [@ EXCEPT !.pc = "ensureUser",
                            !.toSave = FreshTweetsToSave(ids, pass[i].tweets)]]
    /\ UNCHANGED <<store, snapshot, createLog, connections>>
    /\ UNCHANGED <<queueVars, cacheVars, bootVars, fetchVars>>

\* ensureUserExists() ends.  With nothing to save the loop is skipped and the
\* snapshot file written.
EnsureUserDone(i, out) ==
    /\ pass[i].pc = "ensureUser"
    /\ IF out = "ok" /\ Len(pass[i].toSave) = 0
       THEN snapshot' = WriteSnapshot(pass[i].tweets)
       ELSE UNCHANGED snapshot
    /\ pass' = [pass EXCEPT ![i] =
                  IF out # "ok" THEN PassThrew(@, store)
                  ELSE IF Len(@.toSave) = 0 THEN PassDone(@, store)
                  ELSE [@ EXCEPT !.pc = "freshEnsure", !.k = 1,
                                 !.ensureCalls = {pass[i].toSave[1].id}]]
    /\ UNCHANGED <<store, createLog, connections>>
    /\ UNCHANGED <<queueVars, cacheVars, bootVars, fetchVars>>

\* Fresh run: ensureConnection() of the current tweet ends; createMemory()
\* is called.
FreshEnsureDone(i, out) ==
    /\ pass[i].pc = "freshEnsure"
    /\ IF ~EnsureConnectionThrows(out)
       THEN /\ connections' = EnsureConnection(connections, out, CurrentToSave(i))
            /\ pass' = [pass EXCEPT ![i] =
                          [@ EXCEPT !.pc = "freshCreate",
                                    !.ensured = Ensured(pass[i], out, CurrentToSave(i))]]
       ELSE /\ pass' = [pass EXCEPT ![i] = PassThrew(@, store)]
            /\ UNCHANGED connections
    /\ UNCHANGED <<store, snapshot, createLog>>
    /\ UNCHANGED <<queueVars, cacheVars, bootVars, fetchVars>>

\* Fresh run: createMemory() ends; next tweet, or, after the last, the
\* snapshot file is written and populateTimeline() returns.
FreshCreateDone(i) ==
    /\ pass[i].pc = "freshCreate"
    /\ LET t == pass[i].toSave[pass[i].k]
           memory == Memory(t, InReplyToFresh(t))
       IN /\ store' = CreateMemory(store, memory)
          /\ createLog' = Append(createLog, [by |-> i, id |-> memory.id])
          /\ pass' = [pass EXCEPT ![i] =
                        IF @.k = Len(@.toSave)
                        THEN PassDone(@, CreateMemory(store, memory))
                        ELSE [@ EXCEPT !.pc = "freshEnsure", !.k = @ + 1,
                                       !.ensureCalls =
                                           @ \cup {NextToSave(i).id}]]
    /\ IF pass[i].k = Len(pass[i].toSave)
       THEN snapshot' = WriteSnapshot(pass[i].tweets)
       ELSE UNCHANGED snapshot
    /\ UNCHANGED connections
    /\ UNCHANGED <<queueVars, cacheVars, bootVars, fetchVars>>

\* The clients are constructed and ready to reconcile.  The store is the
\* agent's: empty, or holding a memory of another writer.  The snapshot file
\* is in the working directory: absent, or left there by an earlier process.
ReconInit ==
    /\ store \in {<<>>, <<OtherMemory>>}
    /\ snapshot \in {NoSnapshot,
                     WriteSnapshot(<<SearchTweet("t1"), SearchTweet("t2")>>)}
    /\ pass = NoPasses
    /\ createLog = <<>>
    /\ connections = {}
    /\ boot = BootIdle
    /\ opKind = NoKinds
    /\ direct = {}
    /\ search = NoSearches
    /\ home = NoHome
    /\ queue = <<>>
    /\ processing = FALSE
    /\ wpc = "idle"
    /\ cur = 0
    /\ reqResult = "none"
    /\ sleep = <<>>
    /\ running = {}
    /\ nAdded = 0
    /\ behaviour = [o \in Ops |-> "ok"]
    /\ attempts = [o \in Ops |-> 0]
    /\ promise = [o \in Ops |-> Pending]
    /\ settleCalls = [o \in Ops |-> 0]
    /\ log = <<>>
    /\ tweetCache = <<>>
    /\ files = <<>>
    /\ dirs = {}
    /\ calls = <<>>
    /\ lastCached = <<>>
    /\ restarts = 0

ReconNext ==
    \/ \E i \in Instances : StartPass(i)
    \/ \E i \in Instances : SnapshotQueryDone(i)
    \/ \E i \in Instances, out \in CallOutcomes : ResumeEnsureDone(i, out)
    \/ \E i \in Instances : ResumeCheckDone(i)
    \/ \E i \in Instances : ResumeCreateDone(i)
    \/ \E i \in Instances : SearchStarted(i)
    \/ \E i \in Instances, result \in SearchResults : SearchDone(i, result)
    \/ \E i \in Instances : FreshQueryDone(i)
    \/ \E i \in Instances, out \in CallOutcomes : EnsureUserDone(i, out)
    \/ \E i \in Instances, out \in CallOutcomes : FreshEnsureDone(i, out)
    \/ \E i \in Instances : FreshCreateDone(i)

ReconSpec == ReconInit /\ [][ReconNext]_vars

----------------------------------------------------------------------------
(* Claims about the RequestQueue *)

Submitted(o) == o <= nAdded
Started(o) == attempts[o] >= 1
Settled(o) == promise[o].state # "pending"
Threw(o) == \E i \in DOMAIN log : log[i] = <<o, "err">>
Succeeded(o) == \E i \in DOMAIN log : log[i] = <<o, "ok">>
InQueue(o) == \E i \in DOMAIN queue : queue[i] = o

\* C1: whatever the interleaving of add() calls with the loop, at most one
\* submitted operation is executing at any moment.
C1_AtMostOneExecuting == Cardinality(running) <= 1

\* An operation is executing while two more, added meanwhile, wait.
C1_Witness == Cardinality(running) = 1 /\ Len(queue) >= 2

\* C2: operations that never fail execute in submission order: when the later
\* one starts, the earlier one has settled.
C2_FifoAmongNeverFailing ==
    \A o, p \in Ops :
        (o < p /\ Submitted(p) /\ behaviour[o] = "ok" /\ behaviour[p] = "ok"
              /\ Started(p))
            => (Settled(o) /\ o \notin running)

\* The third operation runs after the first, both never failing, with a
\* failing one submitted between them.
C2_Witness ==
    /\ nAdded = 3
    /\ behaviour[1] = "ok" /\ behaviour[2] = "failOnce" /\ behaviour[3] = "ok"
    /\ 3 \in running

\* C3: an operation whose thunk throws is put back at the front and executed
\* again before any operation submitted after it (A, B(fail), backoff,
\* B(success), C): no later operation starts before the failed one has been
\* called a second time.
C3_FailedRunsAgainBeforeLater ==
    \A o, p \in Ops :
        (o < p /\ Submitted(p) /\ Threw(o) /\ Started(p)) => attempts[o] >= 2

\* C4: an operation that fails on every attempt is never abandoned (it is
\* running, held by the loop, or in the queue) and keeps every operation
\* submitted after it from executing.
C4_AlwaysFailingBlocksQueue ==
    \A o \in Ops :
        (Submitted(o) /\ behaviour[o] = "failAlways" /\ Threw(o))
            => /\ (o \in running \/ cur = o \/ InQueue(o))
               /\ \A p \in Ops : (o < p /\ Submitted(p)) => ~Started(p)

\* C5: the promise of add() resolves with the thunk's result when the thunk
\* resolves, rejects with the thunk's error when it throws, and is settled by
\* exactly one resolve/reject call.
C5_PromiseFollowsThunk ==
    \A o \in Ops :
        /\ settleCalls[o] <= 1
        /\ Settled(o) <=> (settleCalls[o] = 1)
        /\ Succeeded(o) => promise[o] = [state |-> "resolved", val |-> ResultOf(o)]
        /\ Threw(o) => promise[o] = [state |-> "rejected", val |-> ErrorOf(o)]

\* One promise was rejected with its thunk's error, another resolved.
C5_Witness ==
    \E o, p \in Ops :
        /\ promise[o] = [state |-> "rejected", val |-> ErrorOf(o)]
        /\ promise[p] = [state |-> "resolved", val |-> ResultOf(p)]

\* C6: under fairness (every thunk settles, every delay elapses), every
\* operation submitted with add() is eventually executed and its promise
\* eventually settles.
C6_EveryOperationSettles ==
    \A o \in Ops : [](Submitted(o) => <>(Started(o) /\ Settled(o)))

\* All operations were submitted, the last while the loop was busy with a
\* failing one, and all have settled; the loop has ended.
C6_Witness ==
    /\ nAdded = MaxOps
    /\ \A o \in Ops : Started(o) /\ Settled(o)
    /\ \E o \in Ops : Threw(o)
    /\ ~processing

----------------------------------------------------------------------------
(* Claims about the tweet cache *)

\* Caller c starts operation op on identifier id in this step.
Calls(c, op, id) ==
    /\ calls[c].pc = "idle"
    /\ calls'[c].pc # "idle"
    /\ calls'[c].op = op
    /\ calls'[c].arg = id

\* The files cacheTweet has written for identifier id.
StoredFor(id) == {p \in DOMAIN files : files[p].id = id}

\* C7: within one process, getCachedTweet(id) called after cacheTweet(item)
\* has completed for that id returns the item put, whatever was put for
\* other identifiers in between.
C7_GetAfterPutReturnsPut ==
    [][\A c \in Callers, id \in TweetIds :
          (Calls(c, "getCachedTweet", id) /\ id \in DOMAIN lastCached)
              => (calls'[c].pc = "done" /\ calls'[c].ret = Value(lastCached[id]))
      ]_vars

\* Both identifiers have been put in this process and a getCachedTweet has
\* returned the item put for its identifier.
C7_Witness ==
    \E c \in Callers :
        /\ calls[c].op = "getCachedTweet" /\ calls[c].pc = "done"
        /\ DOMAIN lastCached = TweetIds
        /\ calls[c].ret = Value(lastCached[calls[c].arg])

\* C8: after a restart, getCachedTweet(id) for an item stored by cacheTweet
\* returns that item: the scan over the conversation directories finds the
\* file cacheTweet wrote.
C8_DurableLookupAfterRestart ==
    [][\A c \in Callers, id \in TweetIds :
          (/\ restarts >= 1
           /\ calls[c].op = "getCachedTweet" /\ calls[c].arg = id
           /\ calls[c].pc = "glob" /\ calls'[c].pc = "done"
           /\ StoredFor(id) # {})
              => calls'[c].ret \in {Value(JSONparse(files[p])) : p \in StoredFor(id)}
      ]_vars

C10_IOErrorPropagates ==
    \A c \in Callers :
        (calls[c].pc = "done" /\ calls[c].io = "EIO")
            => calls[c].ret = Throw(calls[c].io)

\* A cacheTweet has failed on mkdir and a getTweet on writeFile (its
\* directory exists), each with the I/O error as its error.
C10_Witness ==
    \E c, d \in Callers :
        /\ calls[c].op = "cacheTweet" /\ calls[c].ret = Throw("EIO")
        /\ PathDirname(CachePath(calls[c].tweet)) \notin dirs
        /\ calls[d].op = "getTweet" /\ calls[d].ret = Throw("EIO")
        /\ PathDirname(CachePath(calls[d].tweet)) \in dirs

----------------------------------------------------------------------------
(* Claims about the bootstrap *)

InSteps(x) == \E i \in 1..Len(boot.steps) : boot.steps[i] = x
Emitted(e) == \E i \in 1..Len(boot.emitted) : boot.emitted[i] = e
Logged(m) == \E i \in 1..Len(boot.logged) : boot.logged[i] = m
\* The credential step is over and did not fail.
EntryDone == boot.pc \notin {"init", "login"}
                /\ boot.failure \notin {"parse", "store", "login"}
LoginInFlight == boot.pc \in {"login", "forcedLogin"}

\* C11: the credential step of the bootstrap takes exactly one source, in
\* the order inline cookies, restored cookies, interactive login.  Inline
\* cookies are installed and saved to the credential store, and neither the
\* store is read nor login called; restored cookies are installed, nothing
\* is saved and login is not called; login is called only when neither
\* exists, and on success its cookies are saved to the store.
C11_OneCredentialSourceInOrder ==
    /\ boot.inline # "absent" =>
          /\ ~InSteps("loadCookies") /\ ~InSteps("login")
          /\ EntryDone => /\ boot.steps = <<"setCookies", "saveCookies">>
                          /\ boot.dbSaved = <<"inline">>
                          /\ boot.forced = 0 => boot.installed = "inline"
    /\ (boot.inline = "absent" /\ boot.saved # "none") =>
          /\ ~InSteps("login") /\ ~InSteps("saveCookies")
          /\ boot.dbSaved = <<>>
          /\ EntryDone => /\ boot.steps = <<"loadCookies", "setCookies">>
                          /\ boot.forced = 0 => boot.installed = boot.saved
    /\ (boot.inline = "absent" /\ boot.saved = "none") =>
          /\ ~InSteps("setCookies")
          /\ EntryDone => /\ boot.steps = <<"loadCookies", "login", "saveCookies">>
                          /\ boot.dbSaved = <<"mapped">>

\* Inline cookies and saved cookies both exist, and the inline ones were
\* taken.
C11_Witness ==
    /\ boot.inline = "array" /\ boot.saved = "saved"
    /\ boot.pc = "poll" /\ boot.installed = "inline"
    /\ boot.dbSaved = <<"inline">>

\* C12: whenever an interactive login call is in flight (the login of the
\* credential step or the one the polling loop forces), it is the call of an
\* operation of the request queue that is executing.
C12_LoginThroughQueue ==
    LoginInFlight => \E o \in running : opKind[o] = "login"

\* C14: when the login of the credential step fails, 'loginError' has been
\* emitted and the bootstrap has ended: the session was never polled, no
\* user id was asked for or set, populateTimeline and onReady did not run.
C14_LoginFailureStopsBootstrap ==
    boot.failure = "login" =>
        /\ boot.pc = "stopped"
        /\ boot.emitted = <<"loginError">>
        /\ ~boot.active /\ boot.failedPolls = 0 /\ boot.forced = 0
        /\ nAdded = 0 /\ boot.idCalls = 0 /\ boot.twitterUserId = "unset"
        /\ boot.populateRuns = 0 /\ boot.onReadyCalls = 0

\* The login of the credential step threw.
C14_Witness ==
    /\ boot.failure = "login" /\ InSteps("login") /\ ~InSteps("saveCookies")
    /\ Emitted("loginError")

InLoop == boot.pc \in {"poll", "sleep", "forcedLogin"}

\* C15: the polling loop calls login only after more failed polls than the
\* threshold; when that login succeeds its cookies are written to the
\* cookies file, the counter starts again and the loop polls again; the
\* bootstrap goes on past the loop only from a poll that answered `active`
\* (a call that throws ends the whole bootstrap, not just the loop).
C15_ForcedLoginOnlyPastThreshold ==
    /\ [](boot.pc = "forcedLogin" => boot.failedPolls > PollThreshold)
    /\ [][(boot.pc = "forcedLogin" /\ boot'.pc # "stopped") =>
              /\ boot'.pc = "poll"
              /\ boot'.cookieFile = "raw"
              /\ boot'.loggedInWaits < boot.loggedInWaits
              /\ boot'.loggedInWaits <= 1]_vars
    /\ [][(InLoop /\ boot'.pc \notin {"poll", "sleep", "forcedLogin", "stopped"}) =>
              boot.pc = "poll" /\ boot'.active]_vars

\* A forced login succeeded and a later poll answered `active`.
C15_Witness ==
    /\ boot.forced >= 1 /\ boot.cookieFile = "raw"
    /\ boot.pc = "resolve" /\ boot.active

\* C16: getUserIdByScreenName is called at most once, by the thunk of the one
\* operation the bootstrap gave to the request queue after the session was
\* reported active, while that operation executes and after its fixed
\* delay; when the call throws or yields nothing the bootstrap ends without
\* a second call, without populateTimeline and without onReady.
C16_UserIdResolvedOnceThroughQueue ==
    /\ boot.idCalls <= 1
    /\ boot.thunk = "delay" => boot.timer = UserIdDelayMs /\ boot.idCalls = 0
    /\ boot.thunk = "remote" =>
          \E o \in running : opKind[o] = "getUserIdByScreenName"
    /\ boot.idCalls = 1 =>
          /\ boot.active
          /\ nAdded = 1
          /\ opKind[1] = "getUserIdByScreenName" /\ attempts[1] = 1
    /\ boot.answer \in {"null", "undefined"} =>
          /\ boot.pc \in {"resolve", "stopped"}
          /\ boot.twitterUserId = "unset"
          /\ boot.populateRuns = 0 /\ boot.onReadyCalls = 0
    /\ boot.failure = "userId" => boot.pc = "stopped" /\ boot.idCalls = 1

\* The remote call threw and the bootstrap ended.
C16_Witness ==
    /\ boot.failure = "userId" /\ boot.answer = "null"
    /\ boot.pc = "stopped" /\ boot.idCalls = 1

\* C17: every bootstrap that ended on a credential parse failure, a login
\* failure (first or forced) or a user-id failure has emitted an event to
\* the client's listeners, is not ready, and let no exception escape.
C17_EveryFailureEmitsSignal ==
    boot.failure \in {"parse", "login", "forcedLogin", "userId"} =>
        /\ Len(boot.emitted) >= 1
        /\ boot.pc = "stopped" /\ boot.onReadyCalls = 0
        /\ ~boot.escaped

\* C18: populateTimeline is called at most once, after the session was
\* reported active and twitterUserId was set; onReady is called at most once,
\* after populateTimeline returned, and not in a bootstrap that had failed.
C18_PopulateOnceThenOnReady ==
    /\ boot.populateRuns <= 1 /\ boot.onReadyCalls <= 1
    /\ boot.populateRuns = 1 =>
          boot.active /\ boot.twitterUserId \notin {"unset", "null", "undefined"}
    /\ boot.populated => boot.populateRuns = 1
    /\ boot.onReadyCalls = 1 =>
          /\ boot.populated
          /\ boot.failure \in {"none", "onReady"}
    /\ (boot.failure # "none" /\ boot.failure # "onReady") => boot.onReadyCalls = 0

\* populateTimeline returned and onReady was called.
C18_Witness ==
    /\ boot.pc = "ready" /\ boot.populateRuns = 1 /\ boot.populated
    /\ boot.onReadyCalls = 1

----------------------------------------------------------------------------
(* Claims about the remote fetch and search calls *)

\* The remote fetch and search calls in flight: the call of each executing
\* queue operation and the calls made outside the queue.
RemoteFetchCalls ==
    {[kind |-> opKind[o], inOperation |-> TRUE] : o \in running}
      \cup {[kind |-> "fetchHomeTimeline", inOperation |-> FALSE] : c \in direct}

\* C13: every remote getTweet, fetchHomeTimeline or fetchSearchTweets call in
\* flight was issued by an operation of the request queue, and no two of
\* them are in flight together.
C13_FetchOnlyInsideQueueOperation ==
    /\ \A call \in RemoteFetchCalls : call.inOperation
    /\ Cardinality(running) + Cardinality(direct) <= 1

----------------------------------------------------------------------------
(* Claims about populateTimeline *)

\* The item identifiers a call of populateTimeline() worked on, in order.
CandidateIds(i) == [k \in 1..Len(pass[i].tweets) |-> pass[i].tweets[k].id]
\* The createMemory() calls of instance i, as positions of createLog.
CreatesBy(i) == {k \in 1..Len(createLog) : createLog[k].by = i}
\* The createMemory() calls for the memory id of tweet id.
CreatesFor(id) ==
    {k \in 1..Len(createLog) : createLog[k].id = stringToUuid(<<id, "-", AgentId>>)}
\* Call j began after call i had returned, both fetched the same candidates
\* from the remote search, and no other instance has run.
InSuccession(i, j) ==
    /\ i # j
    /\ pass[i].pc = "done" /\ pass[j].pc = "done"
    /\ i \in pass[j].after
    /\ pass[i].fetched = "yes" /\ pass[j].fetched = "yes"
    /\ CandidateIds(i) = CandidateIds(j)
    /\ \A h \in Instances \ {i, j} : pass[h].pc = "idle"

\* C19: when two calls of populateTimeline() reconcile the same candidates
\* one after the other, the second one calls createMemory() for no item the
\* first one has recorded, the store after the second equals the store after
\* the first, and it holds one memory per item.
C19_SecondPassCreatesNothing ==
    \A i, j \in Instances :
        InSuccession(i, j) =>
            /\ \A a \in CreatesBy(i), b \in CreatesBy(j) :
                   createLog[a].id # createLog[b].id
            /\ pass[j].endStore = pass[i].endStore
            /\ \A id \in TweetIds : Cardinality(CreatesFor(id)) <= 1

\* C20: over all client instances of the agent, createMemory() is called at
\* most once for the memory id derived from an item and the agent, and the
\* store holds at most one memory under that id.
C20_OneCreatePerDerivedKey ==
    \A id \in TweetIds :
        /\ Cardinality(CreatesFor(id)) <= 1
        /\ Cardinality({k \in 1..Len(store) :
                           store[k].id = stringToUuid(<<id, "-", AgentId>>)}) <= 1

\* The store st holds a durable record for the item id: a memory under the
\* id derived from the item and the agent.
HasRecord(st, id) == GetMemoryById(st, stringToUuid(<<id, "-", AgentId>>)) # {}
\* Call j ran alone: every other instance is idle or had ended before j began.
RanAlone(j) ==
    \A h \in Instances \ {j} : pass[h].pc = "idle" \/ h \in pass[j].after
\* When call j began, exactly the first n items of the snapshot it read had
\* durable records.
IngestedPrefix(j, n) ==
    LET snap == pass[j].startSnapshot
    IN /\ n \in 1..Len(snap)
       /\ \A k \in 1..Len(snap) :
              HasRecord(pass[j].startStore, snap[k].id) <=> k <= n
\* The memory ids call j has passed to createMemory().
CreatedIds(j) == {createLog[k].id : k \in CreatesBy(j)}

\* C21: a call of populateTimeline() that begins with the first n items of
\* the snapshot already recorded and the others not, and runs alone to its
\* end, calls createMemory() once for each item after the n-th and for
\* nothing else.
C21_ResumedPassCreatesExactlySuffix ==
    \A j \in Instances : \A n \in 1..Cardinality(TweetIds) :
        (pass[j].pc = "done" /\ RanAlone(j) /\ IngestedPrefix(j, n)) =>
            LET snap == pass[j].startSnapshot
            IN /\ CreatedIds(j) = {MemoryId(snap[k]) : k \in (n + 1)..Len(snap)}
               /\ Cardinality(CreatesBy(j)) = Len(snap) - n

\* C30: a call of populateTimeline() that begins with a snapshot of which
\* some item already has a durable record performs no remote search and
\* calls createMemory() only for snapshot items without a durable record.
C30_ResumedPassNeverFetches ==
    \A j \in Instances :
        LET snap == pass[j].startSnapshot
            recorded == {k \in 1..Len(snap) :
                            HasRecord(pass[j].startStore, snap[k].id)}
        IN (recorded # {} /\ RanAlone(j)) =>
               /\ pass[j].pc \notin {"search", "searching"}
               /\ pass[j].fetched = "no"
               /\ CreatedIds(j) \subseteq
                      {MemoryId(snap[k]) : k \in (1..Len(snap)) \ recorded}

\* C29: in a fresh call the ids kept after the store query belong to no
\* candidate that already has a durable record: every tweet left to save has
\* no memory under its derived id, so createMemory() is not called for a
\* recorded candidate.
C29_FreshFilterDropsRecorded ==
    [][\A i \in Instances :
          (pass[i].pc = "freshQuery" /\ pass'[i].pc # "freshQuery") =>
              \A k \in 1..Len(pass'[i].toSave) :
                  ~HasRecord(store, pass'[i].toSave[k].id)]_vars

\* The window of randomDelay(): 1500 + floor(random * 2000), random < 1.
PacingWindow == 1500..3499
\* The loop is in its pacing delay: the last timer it waits for.
InPacingDelay == wpc = "sleeping" /\ Len(sleep) = 1
\* This step calls a request: the loop shifts it from the queue.
StartsOperation == attempts' # attempts

\* C25: after every request it has called, failed or not, the loop waits a
\* delay of 1500 to 3499 ms before it takes the next one: the last timer of
\* every sleep lies in the window, a request is called only when that timer
\* fires or by a loop that starts (which no loop does before the delay of
\* the previous one is over), and the loop leaves a request only into the
\* sleep.
C25_PacingDelayBetweenOperations ==
    /\ [](wpc = "sleeping" => sleep[Len(sleep)] \in PacingWindow)
    /\ [][/\ StartsOperation => (wpc = "idle" \/ InPacingDelay)
          /\ (wpc = "resumed" /\ wpc' # "resumed") => wpc' = "sleeping"
          /\ (wpc # "idle" /\ wpc' = "idle") => InPacingDelay]_vars

\* A request failed, an earlier one succeeded, and the loop waits the pacing
\* delay with the next request in the queue.
C25_Witness ==
    /\ InPacingDelay
    /\ Threw(cur)
    /\ \E o \in Ops : Succeeded(o)
    /\ queue # <<>>

\* The last call of the thunk of o has thrown.
FailedLast(o) ==
    \E i \in DOMAIN log :
        /\ log[i] = <<o, "err">>
        /\ \A j \in DOMAIN log : j > i => log[j][1] # o

\* C26: when the request the loop awaited has failed, the loop puts it back
\* and sleeps 2^n * 1000 ms, n the length of the queue with the request back
\* in it, before the pacing delay.
C26_BackoffByQueueDepth ==
    [][(wpc = "resumed" /\ wpc' = "sleeping" /\ FailedLast(cur)) =>
           /\ queue' = <<cur>> \o queue
           /\ Len(sleep') = 2
           /\ sleep'[1] = Pow2(Len(queue')) * 1000]_vars

\* The files the glob of getCachedTweet(id) matches.
ScanFinds(id) == Glob(CachePattern(id))

\* C27: when getCachedTweet finds no in-memory entry and its scan finds a
\* file, the tweet read from the file is put in the in-memory tier (and is
\* the result); the entry stays for as long as the process lives; and a
\* getCachedTweet for an identifier that has an in-memory entry returns that
\* entry at once, without the scan.
C27_DurableHitPromotes ==
    /\ [][\A c \in Callers :
             (/\ calls[c].pc = "glob" /\ calls'[c].pc # "glob"
              /\ restarts' = restarts
              /\ ScanFinds(calls[c].arg) # {}) =>
                 /\ calls[c].arg \in DOMAIN tweetCache'
                 /\ tweetCache'[calls[c].arg] \in
                        {JSONparse(files[f]) : f \in ScanFinds(calls[c].arg)}
                 /\ calls[c].op = "getCachedTweet" =>
                        calls'[c].ret = Value(tweetCache'[calls[c].arg])]_vars
    /\ [][\A id \in TweetIds :
             (id \in DOMAIN tweetCache /\ restarts' = restarts) =>
                 id \in DOMAIN tweetCache']_vars
    /\ [][\A c \in Callers, id \in TweetIds :
             (Calls(c, "getCachedTweet", id) /\ id \in DOMAIN tweetCache) =>
                 /\ calls'[c].pc = "done"
                 /\ ~calls'[c].scanned
                 /\ calls'[c].ret = Value(tweetCache[id])]_vars

\* No cacheTweet has completed in this process, and a getCachedTweet has
\* returned the tweet of the file without a scan: the entry it was answered
\* from was put by the scan of an earlier lookup.
C27_Witness ==
    \E c \in Callers :
        /\ lastCached = <<>>
        /\ calls[c].op = "getCachedTweet" /\ calls[c].pc = "done"
        /\ ~calls[c].scanned
        /\ calls[c].ret = Value(JSONparse(JSONstringify(LeftTweet)))

\* C28: getTweet looks the identifier up first.  With an in-memory entry or
\* a file found by the scan it returns the cached tweet and submits no remote
\* call; otherwise it submits one remote getTweet, and when that yields a
\* tweet and getTweet returns it, the tweet is in the in-memory tier and in
\* its file.
C28_GetTweetCacheFirst ==
    /\ [](\A c \in Callers :
             calls[c].op = "getTweet" =>
                 /\ calls[c].fetched <= 1
                 /\ calls[c].pc = "glob" => calls[c].fetched = 0
                 /\ calls[c].pc \in {"fetch", "mkdir", "write"} =>
                        calls[c].fetched = 1)
    /\ [][\A c \in Callers, id \in TweetIds :
             (Calls(c, "getTweet", id) /\ id \in DOMAIN tweetCache) =>
                 /\ calls'[c].pc = "done"
                 /\ calls'[c].fetched = 0
                 /\ calls'[c].ret = Value(tweetCache[id])]_vars
    /\ [][\A c \in Callers :
             (/\ calls[c].op = "getTweet"
              /\ calls[c].pc = "glob" /\ calls'[c].pc # "glob"
              /\ restarts' = restarts) =>
                 IF ScanFinds(calls[c].arg) # {}
                 THEN /\ calls'[c].pc = "done"
                      /\ calls'[c].fetched = 0
                      /\ calls'[c].ret \in
                           {Value(JSONparse(files[f])) : f \in ScanFinds(calls[c].arg)}
                 ELSE /\ calls'[c].pc = "fetch"
                      /\ calls'[c].fetched = 1]_vars
    /\ [][\A c \in Callers :
             (/\ calls'[c].op = "getTweet"
              /\ calls[c].pc # "done" /\ calls'[c].pc = "done"
              /\ calls'[c].fetched = 1
              /\ calls'[c].ret.kind = "value"
              /\ calls'[c].ret.val # Undefined) =>
                 LET tweet == calls'[c].ret.val IN
                 /\ tweet.id \in DOMAIN tweetCache'
                 /\ tweetCache'[tweet.id] = tweet
                 /\ CachePath(tweet) \in DOMAIN files'
                 /\ files'[CachePath(tweet)] = JSONstringify(tweet)]_vars

\* One getTweet has returned a cached tweet without a remote call and another
\* has returned the tweet its one remote call yielded.
C28_Witness ==
    \E c, d \in Callers :
        /\ calls[c].op = "getTweet" /\ calls[c].pc = "done"
        /\ calls[c].fetched = 0 /\ calls[c].ret.kind = "value"
        /\ calls[d].op = "getTweet" /\ calls[d].pc = "done"
        /\ calls[d].fetched = 1 /\ calls[d].ret.kind = "value"
        /\ calls[d].ret.val # Undefined

----------------------------------------------------------------------------
(* Claims about fetchSearchTweets *)

\* Operation o stands for a fetchSearchTweets() call.
IsSearch(o) == opKind[o] = "fetchSearchTweets"

\* C22: fetchSearchTweets never throws.  It returns as soon as the promise of
\* requestQueue.add() settles, and when that promise is rejected or the
\* remote call has failed the value it returns is the empty tweet list.
C22_SearchNeverRaises ==
    \A o \in Ops :
        IsSearch(o) =>
            /\ search[o].ret.kind # "throw"
            /\ search[o].ret.kind = "value" <=> promise[o].state # "pending"
            /\ promise[o].state = "rejected" => search[o].ret.val = EmptyTweets
            /\ (search[o].remote = "rejected" /\ search[o].ret.kind = "value")
                   => search[o].ret.val = EmptyTweets

\* The remote search call was rejected, the promise of add() with it, and
\* fetchSearchTweets has returned the empty list.
C22_Witness ==
    \E o \in Ops :
        /\ IsSearch(o)
        /\ search[o].remote = "rejected"
        /\ promise[o] = [state |-> "rejected", val |-> ErrorOf(o)]
        /\ search[o].ret = [kind |-> "value", val |-> EmptyTweets]

\* C23: a running search operation always settles, whether its remote call
\* settles or not, fetchSearchTweets returns, and the loop of the queue leaves
\* the operation behind; when the operation settles while the remote call is
\* still unsettled it resolves with the empty list, which is what
\* fetchSearchTweets returns; and the loop leaves it by calling the request
\* at the head of the queue, or by ending when there is none.
C23_SearchTimeoutUnblocksQueue ==
    /\ \A o \in Ops :
           (IsSearch(o) /\ o \in running) ~>
               /\ promise[o].state # "pending"
               /\ search[o].ret.kind = "value"
               /\ cur # o \/ wpc = "idle"
    /\ [][\A o \in Ops :
             (/\ IsSearch(o) /\ o \in running /\ o \notin running'
              /\ search'[o].remote = "unsettled") =>
                 /\ promise'[o] = [state |-> "resolved", val |-> EmptyTweets]
                 /\ search'[o].ret = [kind |-> "value", val |-> EmptyTweets]]_vars
    /\ [][(cur # 0 /\ IsSearch(cur) /\ wpc # "idle"
             /\ (cur' # cur \/ wpc' = "idle")) =>
              IF queue # <<>>
              THEN cur' = Head(queue) /\ attempts'[cur'] = attempts[cur'] + 1
              ELSE wpc' = "idle"]_vars

\* A search operation has resolved with the empty list while its remote call
\* is still unsettled, and an operation submitted after it has been called.
C23_Witness ==
    \E o, p \in Ops :
        /\ o < p
        /\ IsSearch(o)
        /\ search[o].remote = "unsettled"
        /\ promise[o] = [state |-> "resolved", val |-> EmptyTweets]
        /\ Started(p)

----------------------------------------------------------------------------
(* Claims about fetchHomeTimeline *)

----------------------------------------------------------------------------
(* Resume loop and ensureConnection *)

\* The resume loop of instance i has found a memory for the tweet it is at:
\* getMemoryById() is about to answer with one, or the loop was left by the
\* break with that tweet never created by this call.
StopsHere(i) ==
    \/ /\ pass[i].pc = "resumeCheck"
       /\ GetMemoryById(store, MemoryId(CurrentToSave(i))) # {}
    \/ /\ pass[i].pc = "done" /\ pass[i].fetched = "no" /\ pass[i].k >= 1
       /\ MemoryId(CurrentToSave(i)) \notin CreatedIds(i)

C32_EnsureBeforeCreate ==
    \A i \in Instances :
        /\ \A k \in CreatesBy(i) :
               \E t \in TweetIds :
                   /\ createLog[k].id = stringToUuid(<<t, "-", AgentId>>)
                   /\ t \in pass[i].ensured
        /\ pass[i].pc \in {"resumeCreate", "freshCreate"} =>
               CurrentToSave(i).id \in pass[i].ensured
        /\ pass[i].ensured \subseteq pass[i].ensureCalls
        /\ \A t \in pass[i].ensureCalls \ pass[i].ensured :
               stringToUuid(<<t, "-", AgentId>>) \notin CreatedIds(i)

\* A call created the memory of its first tweet and then failed to connect
\* the room of the second, which it left without a memory of its own.
C32_Witness ==
    \E i \in Instances :
        /\ pass[i].pc = "threw"
        /\ pass[i].k = 2
        /\ CreatedIds(i) = {MemoryId(pass[i].toSave[1])}
        /\ pass[i].toSave[2].id \in pass[i].ensureCalls \ pass[i].ensured

----------------------------------------------------------------------------
(* Room keys and reply links *)

\* The tweets whose memories the store query of instance i is about, and the
\* room ids the query is made with.
AtQuery(i) == pass[i].pc \in {"snapshotQuery", "freshQuery"}
QueryRoomIds(i) ==
    IF pass[i].pc = "snapshotQuery"
    THEN SnapshotRoomIds(pass[i].tweets)
    ELSE FreshRoomIds(pass[i].tweets)

\* C38: the room ids of the existing-memories query, in the snapshot branch
\* and in the fresh branch, are the room ids the memories of the same tweets
\* are created with, so the query answers with every memory an earlier call
\* created for one of these tweets.
C38_QueryRoomIsCreateRoom ==
    \A i \in Instances :
        AtQuery(i) =>
            /\ QueryRoomIds(i) =
                   {RoomId(pass[i].tweets[k]) : k \in 1..Len(pass[i].tweets)}
            /\ \A k \in 1..Len(pass[i].tweets) :
                   GetMemoryById(store, MemoryId(pass[i].tweets[k]))
                       \subseteq GetMemoriesByRoomIds(store, QueryRoomIds(i))

\* The tweet a tweet answers.
RepliedTo(id) == SearchTweet(SearchTweet(id).inReplyToStatusId)

\* C39: the inReplyTo of the memory of a tweet that answers another is the
\* memory id (tweet id, agent id) of the answered tweet, whichever branch
\* created the memory.
C39_ReplyLinkIsMemoryId ==
    \A n \in 1..Len(store) : \A id \in TweetIds :
        /\ store[n].id = MemoryId(SearchTweet(id))
        /\ SearchTweet(id).inReplyToStatusId # "undefined"
        => store[n].inReplyTo = MemoryId(RepliedTo(id))

----------------------------------------------------------------------------
(* Polling loop counter and credential persistence across restarts *)

\* C36: every login issued by the polling loop comes after the same number
\* of isLoggedIn() answers of `false` since the loop began or since the
\* previous such login.
C36_SamePollsBeforeEveryForcedLogin ==
    \A m, n \in DOMAIN boot.pollsBefore :
        boot.pollsBefore[m] = boot.pollsBefore[n]

\* The bootstrap path that persisted the cookies found in the database.
PersistedCookiesOf(path) ==
    IF path = "inline" THEN "inline"
    ELSE IF path = "login" THEN MapCookies("raw")
    ELSE "raw"

\* C37: when the previous process persisted cookies, by the inline path, the
\* first login or a login of the polling loop, and the agent starts again
\* without inline cookies, loadCookiesFromDatabase() finds the cookies that
\* the previous process persisted last, and they are installed.
C37_RestoreFindsLastPersisted ==
    (restarts >= 1 /\ boot.prev # "none" /\ boot.pc # "init"
        /\ boot.failure # "store") =>
        /\ boot.saved = PersistedCookiesOf(boot.prev)
        /\ SubSeq(boot.steps, 1, 2) = <<"loadCookies", "setCookies">>

----------------------------------------------------------------------------
(* No lost wake-up in RequestQueue *)

\* The loop waits in the pacing delay that its last turn ends with.
InLastPacingDelay == wpc = "sleeping" /\ Len(sleep) = 1
\* add() is called while the loop is in its last pacing delay and nothing
\* else is pending.
LateAdd ==
    /\ InLastPacingDelay /\ queue = <<>>
    /\ nAdded' = nAdded + 1
\* The loop finds the queue empty after a pacing delay and ends.
LoopExits == InLastPacingDelay /\ wpc' = "idle"

\* C33: whenever control is with the event loop, a non-empty queue has an
\* active loop (`processing` is true, and it is true exactly while a loop
\* runs); a request added during the last pacing delay stays queued under
\* the running loop and every queued request is started; the loop ends only
\* on an empty queue and then `processing` is false, which happens again
\* after every burst of requests.
C33_NoLostWakeUp ==
    /\ [](queue # <<>> => processing)
    /\ [](processing <=> wpc # "idle")
    /\ [][LateAdd => processing' /\ queue' = <<nAdded'>> /\ wpc' = "sleeping"]_vars
    /\ [][LoopExits => queue = <<>> /\ queue' = <<>> /\ ~processing']_vars
    /\ \A o \in Ops : InQueue(o) ~> Started(o)
    /\ processing ~> ~processing

\* A request is pending while the loop waits in the pacing delay after the
\* last request before it, whose promise is settled.
C33_Witness ==
    \E o \in Ops :
        /\ InLastPacingDelay
        /\ queue = <<o>>
        /\ cur = o - 1 /\ Settled(cur)
        /\ processing

----------------------------------------------------------------------------
(* Timeout window of a queued search; remote calls in flight *)

\* C34: the timeout of a search runs from the moment the queue calls its
\* thunk: the timer does not fire while the operation still waits in the
\* queue, so the timeout never decides the race of a search whose remote
\* call has had no time to answer.
C34_TimeoutRunsFromDequeue ==
    \A o \in Ops :
        (IsSearch(o) /\ search[o].timer = "fired") => Started(o)

\* The instances whose queue has a search in flight on the shared Scraper.
Searching == {i \in Instances : pass[i].pc = "searching"}

\* C35: of all the instances that share ClientBase._twitterClient, at most
\* one has a queued remote operation in flight at any moment.
C35_OneRemoteCallAcrossInstances == Cardinality(Searching) <= 1

----------------------------------------------------------------------------
(* The two tiers of the tweet cache *)

\* cacheTweet, called directly or by getTweet, ends with the error of mkdir
\* or of writeFile in this step.
CacheTweetFails(c) ==
    /\ calls[c].pc \in {"mkdir", "write"}
    /\ calls'[c].pc = "done"
    /\ calls'[c].io # "ok"

\* C40: whatever cacheTweet, getCachedTweet and getTweet calls have run, and
\* however they ended, every tweet in the Map has a file in a tweetcache
\* directory; a cacheTweet that ends with an I/O error leaves the Map as it
\* was.
C40_MemoryTierWithinDurableTier ==
    /\ [](\A id \in DOMAIN tweetCache : StoredFor(id) # {})
    /\ [][\A c \in Callers : CacheTweetFails(c) => tweetCache' = tweetCache]_vars

\* A cacheTweet call has ended with an I/O error for a tweet that is not in
\* the Map, while the Map holds another tweet.
C40_Witness ==
    \E c \in Callers :
        /\ calls[c].pc = "done"
        /\ calls[c].op = "cacheTweet"
        /\ calls[c].io = "EIO"
        /\ calls[c].arg \notin DOMAIN tweetCache
        /\ tweetCache # <<>>

====
